---- MODULE Spec2Model ----
(***************************************************************************)
(* zenoh-recorder: one recording session with one topic buffer, the shared *)
(* flush-task queue and a flush worker.                                    *)
(*                                                                         *)
(* The topic buffer (src/src/buffer.rs) is modelled statement by statement *)
(* at the granularity of its atomics and of its list locks, so that        *)
(* concurrent push_sample calls and force_flush interleave as tokio tasks  *)
(* do.  The recording session and manager (crate module `recorder`) are    *)
(* modelled from the specification, sections 4.5 and 4.6.                  *)
(*                                                                         *)
(* The specifications share the buffer actions:                            *)
(*   Spec     the recorder: one session whose subscription task delivers   *)
(*            samples one at a time, the control commands, finish with its *)
(*            force_flush, the flush worker and the clock;                 *)
(*   LiveSpec  Spec without the clock, the finish task scheduled fairly;   *)
(*   BufSpec  the buffer used directly, as tests/buffer_tests.rs does:     *)
(*            several tasks call push_sample concurrently,                 *)
(*            a consumer pops the queue;                                   *)
(*   ForceSpec  pushes of one task racing with force_flush calls;          *)
(*   BufLiveSpec  BufSpec with every pushing task scheduled fairly;        *)
(*   SeqSpec  the buffer used by one caller at a time, with the clock;     *)
(*   RetrySpec  write_with_retry of the three storage clients;             *)
(*   RetryLiveSpec  RetrySpec with the retry loop scheduled fairly;        *)
(*   PoolSpec  SeqSpec's buffer with its queue drained by the worker pool; *)
(*   PoolLiveSpec  PoolSpec with every worker scheduled fairly;            *)
(*   MgrSpec  the manager: concurrent start_recording calls, the control   *)
(*            commands, status queries and the sessions' subscriptions;    *)
(*   CtlSpec  MgrSpec's manager behind the control interface: one handler  *)
(*            task per query (src/src/control.rs);                         *)
(*   ShutSpec  the manager with its shutdown call;                         *)
(*   ShutLiveSpec  ShutSpec with the shutdown task scheduled fairly;       *)
(*   ConcSpec  concurrent pushes of small samples on the buffer;           *)
(*   SerSpec  one call of a pure part: serialize_batch and a reader of its *)
(*            frame (src/src/mcap_writer.rs), topic_to_entry_name, or a    *)
(*            push at a wall-clock time finer than a second.               *)
(***************************************************************************)
EXTENDS Integers, Sequences, FiniteSets, TLC

(* ------------------------------ bounds -------------------------------- *)
\* samples the subscription delivers in one run of Spec
MaxSamples == 2
\* push_sample calls in one run of BufSpec
MaxPushes == 3
\* direct force_flush calls in one run of ForceSpec or SeqSpec
MaxForce == 1
\* wall-clock seconds the run spans
MaxTime == 1
\* capacity of the flush-task ArrayQueue (queue_capacity)
QueueCap == 2
\* max_buffer_size of the topic buffer, in payload bytes
MaxBufferSize == 2
\* max_buffer_duration of the topic buffer, in seconds
MaxBufferDuration == 1

\* largest max_retries argument a write_with_retry call is given
MaxRetries == 10

\* first backoff delay of write_with_retry, in milliseconds
InitialDelayMs == 100
\* cap of the backoff delay, in milliseconds
MaxDelayMs == 30000
\* max_retries of the ReductStore configuration (default_retries)
ConfiguredRetries == 3

\* workers of the flush pool (workers.flush_workers)
FlushWorkers == 2

\* start_recording calls in one run of MgrSpec
MaxStarts == 2
\* queries received on the command channel in one run of CtlSpec
MaxQueries == 3
\* queries received on the status channel in one run of CtlSpec
MaxStatusQueries == 1
\* samples in a batch handed to serialize_batch, bytes in a payload
MaxBatch == 2
MaxPayload == 1
\* the longest topic an entry name is made of
MaxTopicLen == 3
\* the wall clock of a timed push counts ticks, TicksPerSecond to a second;
\* creation time, elapsed time and max_buffer_duration are at most MaxTicks
TicksPerSecond == 2
MaxTicks == 4

\* payload lengths a delivered sample may have
PayloadSizes == {1, 2}
\* tasks that may run push_sample concurrently on the buffer
Pushers == {"p1", "p2"}
\* the task on which the session's subscription delivers its samples
Sub == "p1"
\* the task that runs finish_recording, or calls force_flush directly
Fin == "fin"
Tasks == Pushers \cup {Fin}
\* the flush workers the manager spawns
Workers == 1..FlushWorkers
\* a push_sample call runs on the first task that is free
PusherRank(t) == IF t = "p1" THEN 1 ELSE 2

NoSample == <<0, 0>>
\* a sample is <<id, payload length>>; ids number the deliveries
PayloadLen(s) == s[2]

Statuses == {"Idle", "Recording", "Paused", "Uploading", "Finished", "Cancelled"}
Terminal == {"Finished", "Cancelled"}

\* control tasks that may run a start_recording call at the same time
Callers == {"c1", "c2"}
\* topic patterns a request may name
Topics == {"/a", "/b"}
\* a recording id: a caller-supplied name, or a generated timestamp and nonce
NoId == [name |-> "", ts |-> 0, nonce |-> 0]
RecX == [name |-> "rec-x", ts |-> 0, nonce |-> 0]
\* RecorderRequest of a start command (protocol.rs:72-95); meta stands for
\* scene, skills, organization, task_id and data_collector_id together
NoRequest == [recording_id |-> NoId, device_id |-> "", topics |-> <<>>, meta |-> ""]
StartRequests ==
    { [recording_id |-> NoId, device_id |-> "d1", topics |-> <<"/a", "/b">>,
       meta |-> "m1"],
      [recording_id |-> RecX, device_id |-> "d2", topics |-> <<"/a">>,
       meta |-> "m2"],
      [recording_id |-> RecX, device_id |-> "", topics |-> <<"/a">>,
       meta |-> "m2"] }
\* RecorderResponse (protocol.rs:96-105), tagged with its command; no
\* response yet
NoResponse == [cmd |-> "none", success |-> FALSE, message |-> "", recording_id |-> NoId]
\* StatusResponse for an id the registry does not hold (spec 4.6)
NotFoundStatus ==
    [success |-> FALSE, status |-> "Idle", meta |-> "", device_id |-> "",
     active_topics |-> <<>>, buffer_size_bytes |-> 0, total_recorded_bytes |-> 0]
\* StatusResponse for a key expression without a recording id
\* (control.rs:160-174)
InvalidFormatStatus ==
    [success |-> FALSE, status |-> "Idle", meta |-> "invalid format",
     device_id |-> "", active_topics |-> <<>>, buffer_size_bytes |-> 0,
     total_recorded_bytes |-> 0]

\* a field the JSON document of a request does not contain
Absent == "absent"
\* the payload of a query on the command channel: present or not, and the
\* fields of its JSON document (protocol.rs:72-95)
Payload(pr, cmd, id, dev, comp, tps, mt) ==
    [present |-> pr, command |-> cmd, recording_id |-> id, device_id |-> dev,
     compression_type |-> comp, topics |-> tps, meta |-> mt]
NoPayload == Payload(FALSE, Absent, NoId, Absent, Absent, <<>>, "")
BadPayloads ==
    { Payload(TRUE, "bogus", RecX, "d1", Absent, <<>>, ""),
      Payload(TRUE, "pause", RecX, Absent, Absent, <<>>, ""),
      Payload(TRUE, "start", RecX, "d2", "bogus", <<"/a">>, "m2") }
StartPayloads ==
    { Payload(TRUE, "start", r.recording_id, r.device_id, Absent, r.topics, r.meta) :
        r \in StartRequests }
CommandPayloads ==
    { Payload(TRUE, cmd, RecX, "d1", Absent, <<>>, "") :
        cmd \in {"pause", "resume", "cancel", "finish"} }
      \cup { Payload(TRUE, "pause", NoId, "d1", Absent, <<>>, "") }
ControlPayloads == {NoPayload} \cup BadPayloads \cup StartPayloads \cup CommandPayloads
\* a query on the status channel is its key expression recorder/status/..:
\* the number of its chunks and the third of them
StatusKeys == { [parts |-> 2, id |-> NoId], [parts |-> 3, id |-> RecX] }

(* ------------------ serializer constants (mcap_writer.rs) ------------- *)
\* bytes are 0..255; text is the sequence of its ASCII codes
NL == 10
\* the sample carries no timestamp
NoTs == -1
\* SystemTime::now() in nanoseconds at the moment of serialization
NowNs == 9
\* what a serializer is made with and what serialize_batch is called with:
\* topic and recording id plain and with a line feed inside, samples with
\* and without a timestamp whose payloads hold a line feed or a byte that
\* looks like a field key
SerializerInputs ==
    LET Payloads == UNION { [1..n -> {10, 26}] : n \in 0..MaxPayload }
        Samples == [ts : {NoTs, 0, 7}, payload : Payloads]
    IN [topic : { <<47, 97>>, <<47, 97, 10, 98>> },
        samples : UNION { [1..n -> Samples] : n \in 0..MaxBatch },
        recording_id : { <<114, 49>>, <<114, 10, 49>> },
        compression_type : {"none", "lz4", "zstd"},
        compression_level : {"Fastest", "Fast", "Default", "Slow", "Slowest"}]

\* topics as text over / _ a l *
EntryTopics ==
    UNION { [1..n -> {47, 95, 97, 108, 42}] : n \in 0..MaxTopicLen }

VARIABLES
    \* ---- TopicBuffer fields (buffer.rs:20-40)
    front_buffer, back_buffer, active_is_front,
    last_flush_time, total_samples, total_bytes,
    flush_queue,
    \* ---- per task: position and locals of push_sample / trigger_flush
    pc, loc_front, loc_sample, loc_taken,
    \* ---- recording session (recorder, spec 4.5)
    status, subscribed, total_recorded_bytes, lastCmd, finishResp, metadata,
    \* ---- flush worker (spec 4.4)
    worker,
    \* ---- one write_with_retry call: position, implementation, argument,
    \* ---- locals (retries, attempt, delay) and what it returned
    rpc, backend, max_retries, retries, attempt, delay, result,
    \* ---- history of the call: write_record invocations, its last outcome,
    \* ---- the delays slept
    calls, last, waits,
    \* ---- flush worker pool (spec 4.4): position of each worker in its
    \* ---- loop, the task it holds; history: the tasks taken, in order, and
    \* ---- how each ended
    wpc, wtask, dequeued, outcomes,
    \* ---- recording manager (spec 4.6): the registry of sessions, the
    \* ---- subscriptions declared on the middleware, the id nonce; per control
    \* ---- task the position and locals of its start_recording call; the
    \* ---- response of the command and of the get_status the last step answered
    registry, subs, nonce, mpc, mreq, mid, mleft, cmdResp, statusResp,
    \* ---- history of the manager: start calls made, samples delivered, ids
    \* ---- allocated, the responses of the start calls that returned, the id
    \* ---- whose status the last step read, ids that got a sample while out of
    \* ---- the registry
    starts, delivered, allocated, returns, asked, orphaned,
    \* ---- control interface (control.rs): per handler task its position, the
    \* ---- payload of its query and the number of the query; history: every
    \* ---- query received with the replies sent on it and how its handler ended
    qpc, qpay, qnum, qlog,
    \* ---- shutdown (spec 4.6): its position, the sessions it has still to
    \* ---- finish, the one it is finishing, what it returned; the flush
    \* ---- tasks the worker pool has not acknowledged yet; history: whether a
    \* ---- manager call was in flight when shutdown was called, the sessions
    \* ---- shutdown brought to Finished
    spc, stodo, sid, sresult, pending, squiet, sfinished,
    \* ---- one serialize_batch call (mcap_writer.rs): where it stands, its
    \* ---- arguments and the serializer's settings, the frame it returned,
    \* ---- what a reader decoded from the frame
    ser_pc, ser_in, ser_out, ser_dec, entry_topics, entry_names, timed,
    \* ---- environment
    now, nextId, forced,
    \* ---- history (not read by the program)
    emitted, before, discarded, sincePush

bufVars == <<front_buffer, back_buffer, active_is_front, last_flush_time,
             total_samples, total_bytes>>
taskVars == <<pc, loc_front, loc_sample, loc_taken>>
sessVars == <<status, subscribed, total_recorded_bytes, lastCmd, finishResp, metadata>>
retryVars == <<rpc, backend, max_retries, retries, attempt, delay, result,
               calls, last, waits>>
poolVars == <<wpc, wtask, dequeued, outcomes>>
mgrVars == <<registry, subs, nonce, mpc, mreq, mid, mleft, cmdResp, statusResp,
             starts, delivered, allocated, returns, asked, orphaned>>
ctlVars == <<qpc, qpay, qnum, qlog>>
shutVars == <<spc, stodo, sid, sresult, pending, squiet, sfinished>>
serVars == <<ser_pc, ser_in, ser_out, ser_dec, entry_topics, entry_names, timed>>
workVars == <<worker, retryVars, poolVars, mgrVars, ctlVars, shutVars, serVars>>
histVars == <<emitted, before, discarded, sincePush>>
envVars == <<now, nextId, forced>>
vars == <<bufVars, flush_queue, taskVars, sessVars, workVars, envVars, histVars>>

(* --------------------------- helpers ---------------------------------- *)
RECURSIVE SumBytes(_)
SumBytes(seq) ==
    IF seq = <<>> THEN 0 ELSE PayloadLen(Head(seq)) + SumBytes(Tail(seq))

Range(seq) == {seq[i] : i \in 1..Len(seq)}

\* ids of the samples whose push_sample has not returned yet
InFlight == {loc_sample[t][1] : t \in Pushers} \ {0}
\* ids of the samples whose push_sample has returned
completed == (1..(nextId - 1)) \ (discarded \cup InFlight)

(* ------------------------------ Init ---------------------------------- *)
Init ==
    /\ front_buffer = <<>>
    /\ back_buffer = <<>>
    /\ active_is_front = TRUE
    /\ last_flush_time = 0
    /\ total_samples = 0
    /\ total_bytes = 0
    /\ flush_queue = <<>>
    /\ pc = [t \in Tasks |-> "idle"]
    /\ loc_front = [t \in Tasks |-> TRUE]
    /\ loc_sample = [t \in Tasks |-> NoSample]
    /\ loc_taken = [t \in Tasks |-> <<>>]
    /\ status = "Idle"
    /\ subscribed = FALSE
    /\ total_recorded_bytes = 0
    /\ lastCmd = [cmd |-> "none", success |-> TRUE]
    /\ finishResp = "none"
    /\ metadata = "none"
    /\ worker = "none"
    /\ rpc = "idle"
    /\ backend = "default"
    /\ max_retries = 0
    /\ retries = 0
    /\ attempt = 0
    /\ delay = InitialDelayMs
    /\ result = [ok |-> FALSE, err |-> "none", at |-> 0]
    /\ calls = 0
    /\ last = [ok |-> FALSE, err |-> "none", at |-> 0]
    /\ waits = <<>>
    /\ wpc = [w \in Workers |-> "wait"]
    /\ wtask = [w \in Workers |-> <<>>]
    /\ dequeued = <<>>
    /\ outcomes = <<>>
    /\ registry = <<>>
    /\ subs = {}
    /\ nonce = 0
    /\ mpc = [c \in Callers |-> "idle"]
    /\ mreq = [c \in Callers |-> NoRequest]
    /\ mid = [c \in Callers |-> NoId]
    /\ mleft = [c \in Callers |-> <<>>]
    /\ cmdResp = NoResponse
    /\ statusResp = NotFoundStatus
    /\ starts = 0
    /\ delivered = 0
    /\ allocated = <<>>
    /\ returns = <<>>
    /\ asked = NoId
    /\ orphaned = {}
    /\ qpc = [c \in Callers |-> "idle"]
    /\ qpay = [c \in Callers |-> NoPayload]
    /\ qnum = [c \in Callers |-> 0]
    /\ qlog = <<>>
    /\ spc = "running"
    /\ stodo = {}
    /\ sid = NoId
    /\ sresult = "none"
    /\ pending = 0
    /\ squiet = TRUE
    /\ sfinished = {}
    /\ ser_pc = "idle"
    /\ ser_in = [topic |-> <<>>, samples |-> <<>>, recording_id |-> <<>>,
                 compression_type |-> "none", compression_level |-> "Default"]
    /\ ser_out = <<>>
    /\ ser_dec = [ok |-> FALSE, count |-> 0, records |-> <<>>]
    /\ entry_topics = <<>>
    /\ entry_names = <<>>
    /\ timed = [created |-> 0, at |-> 0, max_buffer_duration |-> 0, bytes |-> 0,
                active |-> <<>>, queue |-> <<>>, stats |-> <<0, 0>>]
    /\ now = 0
    /\ nextId = 1
    /\ forced = 0
    /\ emitted = <<>>
    /\ before = {}
    /\ discarded = {}
    /\ sincePush = <<>>

(* ------------------- TopicBuffer::push_sample ------------------------- *)
\* buffer.rs:72-79  load active_is_front, pick the list, keep the sample
PushLoad(t, s) ==
    /\ pc[t] = "idle"
    /\ loc_front' = [loc_front EXCEPT ![t] = active_is_front]
    /\ loc_sample' = [loc_sample EXCEPT ![t] = s]
    /\ pc' = [pc EXCEPT ![t] = "append"]
    /\ before' = before \cup {<<a, s[1]>> : a \in completed}
    /\ sincePush' = Append(sincePush, s)
    /\ UNCHANGED <<bufVars, flush_queue, loc_taken, emitted>>

\* buffer.rs:81-84  buffer.write().await; buf.push(sample)
PushAppend(t) ==
    /\ pc[t] = "append"
    /\ IF loc_front[t]
         THEN /\ front_buffer' = Append(front_buffer, loc_sample[t])
              /\ UNCHANGED back_buffer
         ELSE /\ back_buffer' = Append(back_buffer, loc_sample[t])
              /\ UNCHANGED front_buffer
    /\ pc' = [pc EXCEPT ![t] = "add_samples"]
    /\ UNCHANGED <<active_is_front, last_flush_time, total_samples, total_bytes,
                   flush_queue, loc_front, loc_sample, loc_taken, histVars>>

PushAddSamplesStore(t) ==
    /\ pc[t] = "add_samples"
    /\ total_samples' = loc_sample[t][1]
    /\ pc' = [pc EXCEPT ![t] = "add_bytes"]
    /\ UNCHANGED <<front_buffer, back_buffer, active_is_front, last_flush_time,
                   total_bytes, flush_queue, loc_front, loc_sample, loc_taken,
                   histVars>>

\* buffer.rs:86  total_samples.fetch_add(1)
PushAddSamples(t) ==
    /\ pc[t] = "add_samples"
    /\ total_samples' = total_samples + 1
    /\ pc' = [pc EXCEPT ![t] = "add_bytes"]
    /\ UNCHANGED <<front_buffer, back_buffer, active_is_front, last_flush_time,
                   total_bytes, flush_queue, loc_front, loc_sample, loc_taken,
                   histVars>>

\* buffer.rs:87  total_bytes.fetch_add(sample_size)
PushAddBytes(t) ==
    /\ pc[t] = "add_bytes"
    /\ total_bytes' = total_bytes + PayloadLen(loc_sample[t])
    /\ pc' = [pc EXCEPT ![t] = "check"]
    /\ UNCHANGED <<front_buffer, back_buffer, active_is_front, last_flush_time,
                   total_samples, flush_queue, loc_front, loc_sample, loc_taken,
                   histVars>>

should_flush_strict ==
    \/ total_bytes > MaxBufferSize
    \/ now - last_flush_time >= MaxBufferDuration

should_flush_late ==
    \/ total_bytes >= MaxBufferSize
    \/ now - last_flush_time > MaxBufferDuration

\* buffer.rs:98-124  should_flush
should_flush ==
    \/ total_bytes >= MaxBufferSize
    \/ now - last_flush_time >= MaxBufferDuration

\* the push returns Ok(()) (buffer.rs:94)
PushReturn(t) ==
    /\ pc' = [pc EXCEPT ![t] = "idle"]
    /\ loc_sample' = [loc_sample EXCEPT ![t] = NoSample]
    /\ loc_front' = [loc_front EXCEPT ![t] = TRUE]
    /\ loc_taken' = [loc_taken EXCEPT ![t] = <<>>]

\* buffer.rs:90-94  if self.should_flush() { trigger_flush } ; Ok(())
PushCheck(t) ==
    /\ pc[t] = "check"
    /\ IF should_flush
         THEN /\ pc' = [pc EXCEPT ![t] = "swap"]
              /\ UNCHANGED <<loc_front, loc_sample, loc_taken>>
         ELSE PushReturn(t)
    /\ UNCHANGED <<bufVars, flush_queue, histVars>>

(* ------------------- TopicBuffer::trigger_flush ----------------------- *)
\* buffer.rs:129-136  was_front = active_is_front.fetch_xor(true)
FlushSwapInPlace(t) ==
    /\ pc[t] = "swap"
    /\ loc_front' = [loc_front EXCEPT ![t] = active_is_front]
    /\ pc' = [pc EXCEPT ![t] = "take"]
    /\ UNCHANGED <<front_buffer, back_buffer, active_is_front, last_flush_time,
                   total_samples, total_bytes, flush_queue, loc_sample,
                   loc_taken, histVars>>

FlushSwap(t) ==
    /\ pc[t] = "swap"
    /\ loc_front' = [loc_front EXCEPT ![t] = active_is_front]
    /\ active_is_front' = ~active_is_front
    /\ pc' = [pc EXCEPT ![t] = "take"]
    /\ UNCHANGED <<front_buffer, back_buffer, last_flush_time, total_samples,
                   total_bytes, flush_queue, loc_sample, loc_taken, histVars>>

FlushTakeGuardHeld(t) ==
    /\ pc[t] = "take"
    /\ loc_sample[t] = NoSample
    /\ IF loc_front[t]
         THEN /\ loc_taken' = [loc_taken EXCEPT ![t] = front_buffer]
              /\ front_buffer' = <<>>
              /\ UNCHANGED back_buffer
         ELSE /\ loc_taken' = [loc_taken EXCEPT ![t] = back_buffer]
              /\ back_buffer' = <<>>
              /\ UNCHANGED front_buffer
    /\ pc' = [pc EXCEPT ![t] = "reset_samples"]
    /\ UNCHANGED <<active_is_front, last_flush_time, total_samples, total_bytes,
                   flush_queue, loc_front, loc_sample, histVars>>

\* buffer.rs:139-142  buffer_to_flush.write().await; mem::take
FlushTake(t) ==
    /\ pc[t] = "take"
    /\ IF loc_front[t]
         THEN /\ loc_taken' = [loc_taken EXCEPT ![t] = front_buffer]
              /\ front_buffer' = <<>>
              /\ UNCHANGED back_buffer
         ELSE /\ loc_taken' = [loc_taken EXCEPT ![t] = back_buffer]
              /\ back_buffer' = <<>>
              /\ UNCHANGED front_buffer
    /\ pc' = [pc EXCEPT ![t] = "reset_samples"]
    /\ UNCHANGED <<active_is_front, last_flush_time, total_samples, total_bytes,
                   flush_queue, loc_front, loc_sample, histVars>>

\* buffer.rs:148  total_samples.store(0)
FlushResetSamples(t) ==
    /\ pc[t] = "reset_samples"
    /\ total_samples' = 0
    /\ pc' = [pc EXCEPT ![t] = "reset_bytes"]
    /\ UNCHANGED <<front_buffer, back_buffer, active_is_front, last_flush_time,
                   total_bytes, flush_queue, loc_front, loc_sample, loc_taken,
                   histVars>>

\* buffer.rs:149  total_bytes.store(0)
FlushResetBytes(t) ==
    /\ pc[t] = "reset_bytes"
    /\ total_bytes' = 0
    /\ pc' = [pc EXCEPT ![t] = "reset_time"]
    /\ UNCHANGED <<front_buffer, back_buffer, active_is_front, last_flush_time,
                   total_samples, flush_queue, loc_front, loc_sample, loc_taken,
                   histVars>>

\* buffer.rs:150-156  last_flush_time.store(now)
FlushResetTime(t) ==
    /\ pc[t] = "reset_time"
    /\ last_flush_time' = now
    /\ pc' = [pc EXCEPT ![t] = "enqueue"]
    /\ UNCHANGED <<front_buffer, back_buffer, active_is_front, total_samples,
                   total_bytes, flush_queue, loc_front, loc_sample, loc_taken,
                   histVars>>

QueuePushEvict(task) ==
    IF Len(flush_queue) < QueueCap
      THEN flush_queue' = Append(flush_queue, task)
      ELSE flush_queue' = Append(Tail(flush_queue), task)

\* buffer.rs:164-175  flush_queue.push(task); a full queue drops the task
QueuePush(task) ==
    IF Len(flush_queue) < QueueCap
      THEN flush_queue' = Append(flush_queue, task)
      ELSE flush_queue' = flush_queue

FlushEnqueueBlocking(t) ==
    /\ pc[t] = "enqueue"
    /\ Len(flush_queue) < QueueCap
    /\ flush_queue' = Append(flush_queue, loc_taken[t])
    /\ emitted' = Append(emitted, [samples |-> loc_taken[t], ok |-> TRUE])
    /\ sincePush' = <<>>
    /\ IF t = Fin
         THEN /\ pc' = [pc EXCEPT ![t] = "flushed"]
              /\ loc_taken' = [loc_taken EXCEPT ![t] = <<>>]
              /\ loc_front' = [loc_front EXCEPT ![t] = TRUE]
              /\ UNCHANGED loc_sample
         ELSE PushReturn(t)
    /\ UNCHANGED <<bufVars, before, discarded>>

FlushEnqueue(t) ==
    /\ pc[t] = "enqueue"
    /\ QueuePush(loc_taken[t])
    /\ emitted' = Append(emitted, [samples |-> loc_taken[t],
                                   ok |-> Len(flush_queue) < QueueCap])
    /\ sincePush' = <<>>
    /\ IF t = Fin
         THEN /\ pc' = [pc EXCEPT ![t] = "flushed"]
              /\ loc_taken' = [loc_taken EXCEPT ![t] = <<>>]
              /\ loc_front' = [loc_front EXCEPT ![t] = TRUE]
              /\ UNCHANGED loc_sample
         ELSE PushReturn(t)
    /\ UNCHANGED <<bufVars, before, discarded>>

BufferStep(t) ==
    \/ PushAppend(t)
    \/ PushAddSamples(t)
    \/ PushAddBytes(t)
    \/ PushCheck(t)
    \/ FlushSwap(t)
    \/ FlushTake(t)
    \/ FlushResetSamples(t)
    \/ FlushResetBytes(t)
    \/ FlushResetTime(t)
    \/ FlushEnqueue(t)

\* TopicBuffer::stats (buffer.rs:185-190)
stats == <<total_samples, total_bytes>>

(* ---------------- recording session and manager (spec 4.5, 4.6) ------- *)
\* RecorderResponse::success (protocol.rs:143-150), tagged with its command
ResponseSuccessFalse(c) == [cmd |-> c, success |-> FALSE]
ResponseSuccess(c) == [cmd |-> c, success |-> TRUE]

\* RecorderResponse::error (protocol.rs:152-159), tagged with its command
ResponseErrorTrue(c) == [cmd |-> c, success |-> TRUE]
ResponseError(c) == [cmd |-> c, success |-> FALSE]

\* start_recording: the session enters the registry in state Recording, its
\* subscription is declared and its topic buffer is installed
\* (TopicBuffer::new stamps last_flush_time, buffer.rs:58-63)
StartRecording ==
    /\ status = "Idle"
    /\ status' = "Recording"
    /\ subscribed' = TRUE
    /\ last_flush_time' = now
    /\ lastCmd' = ResponseSuccess("start")
    /\ UNCHANGED <<front_buffer, back_buffer, active_is_front, total_samples,
                   total_bytes, flush_queue, taskVars, total_recorded_bytes,
                   finishResp, metadata, workVars, envVars, histVars>>

\* the delivery point of a subscription: a sample is routed to the topic
\* buffer only while the session is Recording, otherwise it is discarded
Accepts == status = "Recording" /\ subscribed

Deliver(n) ==
    /\ status # "Idle"
    /\ pc[Sub] = "idle"
    /\ nextId <= MaxSamples
    /\ nextId' = nextId + 1
    /\ IF Accepts
         THEN /\ PushLoad(Sub, <<nextId, n>>)
              /\ total_recorded_bytes' = total_recorded_bytes + n
              /\ UNCHANGED discarded
         ELSE /\ discarded' = discarded \cup {nextId}
              /\ UNCHANGED <<bufVars, flush_queue, taskVars,
                             total_recorded_bytes, emitted, before, sincePush>>
    /\ UNCHANGED <<status, subscribed, lastCmd, finishResp, metadata, workVars,
                   now, forced>>

\* pause(): Recording -> Paused, anything else is state-illegal
PauseRecording ==
    /\ status # "Idle"
    /\ IF status = "Recording"
         THEN /\ status' = "Paused"
              /\ lastCmd' = ResponseSuccess("pause")
         ELSE /\ status' = status
              /\ lastCmd' = ResponseError("pause")
    /\ UNCHANGED <<bufVars, flush_queue, taskVars, subscribed,
                   total_recorded_bytes, finishResp, metadata, workVars,
                   envVars, histVars>>

\* resume(): Paused -> Recording, anything else is state-illegal
ResumeRecording ==
    /\ status # "Idle"
    /\ IF status = "Paused"
         THEN /\ status' = "Recording"
              /\ lastCmd' = ResponseSuccess("resume")
         ELSE /\ status' = status
              /\ lastCmd' = ResponseError("resume")
    /\ UNCHANGED <<bufVars, flush_queue, taskVars, subscribed,
                   total_recorded_bytes, finishResp, metadata, workVars,
                   envVars, histVars>>

\* cancel(): any non-terminal state -> Cancelled; subscriptions dropped, the
\* buffers are not flushed (TopicBuffer has no operation that clears them)
CancelRecording ==
    /\ status # "Idle"
    /\ IF status \in {"Recording", "Paused", "Uploading"}
         THEN /\ status' = "Cancelled"
              /\ subscribed' = FALSE
              /\ lastCmd' = ResponseSuccess("cancel")
         ELSE /\ UNCHANGED <<status, subscribed>>
              /\ lastCmd' = ResponseError("cancel")
    /\ UNCHANGED <<bufVars, flush_queue, taskVars, total_recorded_bytes,
                   finishResp, metadata, workVars, envVars, histVars>>

FinishBeginAgain ==
    /\ status # "Idle"
    /\ IF status \in {"Recording", "Paused", "Finished"}
         THEN /\ status' = "Uploading"
              /\ subscribed' = FALSE
              /\ pc' = [pc EXCEPT ![Fin] = "swap"]
              /\ lastCmd' = ResponseSuccess("finish")
         ELSE /\ UNCHANGED <<status, subscribed, pc>>
              /\ lastCmd' = ResponseError("finish")
    /\ UNCHANGED <<bufVars, flush_queue, loc_front, loc_sample, loc_taken,
                   total_recorded_bytes, finishResp, metadata, workVars,
                   envVars, histVars>>

\* finish(), first part: Recording|Paused -> Uploading, subscriptions dropped,
\* then force_flush of the topic buffer (buffer.rs:179-182) begins
FinishBegin ==
    /\ status # "Idle"
    /\ IF status \in {"Recording", "Paused"}
         THEN /\ status' = "Uploading"
              /\ subscribed' = FALSE
              /\ pc' = [pc EXCEPT ![Fin] = "swap"]
              /\ lastCmd' = ResponseSuccess("finish")
         ELSE /\ UNCHANGED <<status, subscribed, pc>>
              /\ lastCmd' = ResponseError("finish")
    /\ UNCHANGED <<bufVars, flush_queue, loc_front, loc_sample, loc_taken,
                   total_recorded_bytes, finishResp, metadata, workVars,
                   envVars, histVars>>

\* every flush task enqueued has been taken and acknowledged by the worker
AllAcked == flush_queue = <<>>

\* finish(), the bounded wait: it ends when every enqueued task has been
\* acknowledged, or when the bound expires
FinishWait(expired) ==
    /\ status # "Idle"
    /\ pc[Fin] = "flushed"
    /\ AllAcked \/ expired
    /\ pc' = [pc EXCEPT ![Fin] = "meta"]
    /\ UNCHANGED <<bufVars, flush_queue, loc_front, loc_sample, loc_taken,
                   sessVars, workVars, envVars, histVars>>

\* finish(): the terminal metadata record; the write may fail
FinishMeta(ok) ==
    /\ pc[Fin] = "meta"
    /\ pc' = [pc EXCEPT ![Fin] = "final"]
    /\ metadata' = IF status # "Uploading" THEN metadata
                   ELSE IF ok THEN "written" ELSE "failed"
    /\ UNCHANGED <<bufVars, flush_queue, loc_front, loc_sample, loc_taken,
                   status, subscribed, total_recorded_bytes, lastCmd,
                   finishResp, workVars, envVars, histVars>>

FinishEndOverwrites ==
    /\ pc[Fin] = "final"
    /\ pc' = [pc EXCEPT ![Fin] = "returned"]
    /\ status' = "Finished"
    /\ finishResp' = "ok"
    /\ UNCHANGED <<bufVars, flush_queue, loc_front, loc_sample, loc_taken,
                   subscribed, total_recorded_bytes, lastCmd, metadata,
                   workVars, envVars, histVars>>

\* finish(), last part: Uploading -> Finished, and finish returns
FinishEnd ==
    /\ pc[Fin] = "final"
    /\ pc' = [pc EXCEPT ![Fin] = "returned"]
    /\ IF status = "Uploading"
         THEN /\ status' = "Finished"
              /\ finishResp' = "ok"
         ELSE /\ status' = status
              /\ finishResp' = "cancelled"
    /\ UNCHANGED <<bufVars, flush_queue, loc_front, loc_sample, loc_taken,
                   subscribed, total_recorded_bytes, lastCmd, metadata,
                   workVars, envVars, histVars>>

\* get_status(id): the state of the session
get_status == status

(* ------------------------- flush worker (spec 4.4) -------------------- *)
WorkerProcessRollsBack(ok) ==
    /\ flush_queue # <<>>
    /\ flush_queue' = Tail(flush_queue)
    /\ worker' = IF ok THEN "stored" ELSE "failed"
    /\ total_recorded_bytes' =
           IF ok THEN total_recorded_bytes
           ELSE total_recorded_bytes - SumBytes(Head(flush_queue))
    /\ UNCHANGED <<bufVars, taskVars, status, subscribed, lastCmd, finishResp,
                   metadata, retryVars, poolVars, mgrVars, ctlVars, shutVars,
                   serVars, envVars, histVars>>

\* a worker takes the oldest task, serializes it and calls write_with_retry;
\* whether the write succeeds or finally fails, the task is gone and the
\* worker goes on
WorkerProcess(ok) ==
    /\ flush_queue # <<>>
    /\ flush_queue' = Tail(flush_queue)
    /\ worker' = IF ok THEN "stored" ELSE "failed"
    /\ UNCHANGED <<bufVars, taskVars, sessVars, retryVars, poolVars, mgrVars,
                   ctlVars, shutVars, serVars, envVars, histVars>>

(* ----------------------- flush worker pool (spec 4.4) ------------------ *)
\* the workers whose loop is running
RunningWorkers == {w \in Workers : wpc[w] # "exited"}

\* a worker back at the head of its loop, its task gone
WorkerContinue(w, ok) ==
    /\ wpc' = [wpc EXCEPT ![w] = "wait"]
    /\ wtask' = [wtask EXCEPT ![w] = <<>>]
    /\ outcomes' = Append(outcomes, [by |-> w, ok |-> ok])
    /\ worker' = IF ok THEN "stored" ELSE "failed"

\* take a task from the bounded queue
WorkerTake(w) ==
    /\ wpc[w] = "wait"
    /\ flush_queue # <<>>
    /\ flush_queue' = Tail(flush_queue)
    /\ wtask' = [wtask EXCEPT ![w] = Head(flush_queue)]
    /\ dequeued' = Append(dequeued, [by |-> w, samples |-> Head(flush_queue)])
    /\ wpc' = [wpc EXCEPT ![w] = "serialize"]
    /\ UNCHANGED <<bufVars, taskVars, sessVars, worker, retryVars, outcomes,
                   mgrVars, ctlVars, shutVars, serVars, envVars, histVars>>

\* invoke the serializer on the task; an error is logged and the worker goes
\* on to the next task
WorkerSerialize(w, ok) ==
    /\ wpc[w] = "serialize"
    /\ IF ok
         THEN /\ wpc' = [wpc EXCEPT ![w] = "write"]
              /\ UNCHANGED <<wtask, outcomes, worker>>
         ELSE WorkerContinue(w, FALSE)
    /\ UNCHANGED <<bufVars, flush_queue, taskVars, sessVars, retryVars,
                   dequeued, mgrVars, ctlVars, shutVars, serVars, envVars,
                   histVars>>

WorkerWriteExits(w, ok) ==
    /\ wpc[w] = "write"
    /\ IF ok
         THEN WorkerContinue(w, TRUE)
         ELSE /\ wpc' = [wpc EXCEPT ![w] = "exited"]
              /\ wtask' = [wtask EXCEPT ![w] = <<>>]
              /\ outcomes' = Append(outcomes, [by |-> w, ok |-> FALSE])
              /\ worker' = "failed"
    /\ UNCHANGED <<bufVars, flush_queue, taskVars, sessVars, retryVars,
                   dequeued, mgrVars, ctlVars, shutVars, serVars, envVars,
                   histVars>>

\* invoke write_with_retry on the frame; ok is what it finally returned: on
\* final failure the worker logs and continues
WorkerWrite(w, ok) ==
    /\ wpc[w] = "write"
    /\ WorkerContinue(w, ok)
    /\ UNCHANGED <<bufVars, flush_queue, taskVars, sessVars, retryVars,
                   dequeued, mgrVars, ctlVars, shutVars, serVars, envVars,
                   histVars>>

\* one step of worker w
WorkerStep(w) ==
    \/ WorkerTake(w)
    \/ \E ok \in BOOLEAN : WorkerSerialize(w, ok)
    \/ \E ok \in BOOLEAN : WorkerWrite(w, ok)

(* --------------------- write_with_retry (storage) --------------------- *)
\* the three implementations: the default method of the StorageBackend
\* trait (backend.rs:56-109), the override of ReductStoreBackend
\* (reductstore.rs:144-202) and ReductStoreClient::write_record_with_retry
\* (storage.rs:76-124)
Backends == {"default", "reductstore", "legacy"}

\* what a write attempt meets: a 2xx response, a request that cannot be
\* sent, a 5xx response, a 4xx response other than 409
Responses == {"2xx", "network", "5xx", "400"}

\* write_record (reductstore.rs:103-142, storage.rs:36-73): Ok for a success
\* status, otherwise an error that carries the failure; at numbers the attempt
write_record(resp, at) ==
    [ok |-> resp = "2xx", err |-> IF resp = "2xx" THEN "none" ELSE resp, at |-> at]

\* no write attempt made yet, nothing returned yet
NoResult == [ok |-> FALSE, err |-> "none", at |-> 0]

Min(a, b) == IF a <= b THEN a ELSE b

\* the retry budget of a call (reductstore.rs:153-157; the argument elsewhere)
EffectiveRetries(b, n) ==
    IF b = "reductstore" /\ n = 0 THEN ConfiguredRetries ELSE n

\* a caller invokes write_with_retry(.., max_retries = n) of implementation b
RetryCall(b, n) ==
    /\ rpc = "idle"
    /\ backend' = b
    /\ max_retries' = n
    /\ retries' = EffectiveRetries(b, n)
    /\ attempt' = 0
    /\ delay' = InitialDelayMs
    /\ rpc' = "write"
    /\ UNCHANGED <<bufVars, flush_queue, taskVars, sessVars, worker, result,
                   calls, last, waits, poolVars, mgrVars, ctlVars, shutVars,
                   serVars, envVars, histVars>>

\* one turn of the loop: write_record(..).await and the match on its result
\* (backend.rs:70-107, reductstore.rs:163-200, storage.rs:87-122)
RetryAttempt(resp) ==
    /\ rpc = "write"
    /\ calls' = calls + 1
    /\ last' = write_record(resp, calls + 1)
    /\ IF last'.ok
         THEN /\ result' = last'
              /\ rpc' = "done"
         ELSE IF attempt < retries
                THEN /\ rpc' = "sleep"
                     /\ UNCHANGED result
                ELSE /\ result' = last'
                     /\ rpc' = "done"
    /\ UNCHANGED <<bufVars, flush_queue, taskVars, sessVars, worker, backend,
                   max_retries, retries, attempt, delay, waits, poolVars,
                   mgrVars, ctlVars, shutVars, serVars, envVars, histVars>>

RetrySleepUncapped ==
    /\ rpc = "sleep"
    /\ waits' = Append(waits, delay)
    /\ delay' = delay * 2
    /\ attempt' = attempt + 1
    /\ rpc' = "write"
    /\ UNCHANGED <<bufVars, flush_queue, taskVars, sessVars, worker, backend,
                   max_retries, retries, result, calls, last, poolVars, mgrVars,
                   ctlVars, shutVars, serVars, envVars, histVars>>

\* sleep(delay).await; delay *= 2; delay = delay.min(30 s); attempt += 1
\* (backend.rs:93-96, reductstore.rs:186-189, storage.rs:110-113)
RetrySleep ==
    /\ rpc = "sleep"
    /\ waits' = Append(waits, delay)
    /\ delay' = Min(delay * 2, MaxDelayMs)
    /\ attempt' = attempt + 1
    /\ rpc' = "write"
    /\ UNCHANGED <<bufVars, flush_queue, taskVars, sessVars, worker, backend,
                   max_retries, retries, result, calls, last, poolVars, mgrVars,
                   ctlVars, shutVars, serVars, envVars, histVars>>

(* -------------------- recording manager (spec 4.6) -------------------- *)
\* everything the manager's operations leave alone
restVars == <<bufVars, flush_queue, taskVars, sessVars, worker, retryVars,
              poolVars, envVars, histVars>>

\* a step that answers neither a command nor a status query: the responses
\* of earlier steps are with their callers
NoReply ==
    /\ cmdResp' = NoResponse
    /\ statusResp' = NotFoundStatus
    /\ asked' = NoId

\* a step that answers a start command; id is the recording id the call
\* worked with
StartReply(resp, id) ==
    /\ cmdResp' = resp
    /\ returns' = Append(returns, [resp |-> resp, id |-> id])
    /\ statusResp' = NotFoundStatus
    /\ asked' = NoId

\* the locals of a start_recording call that has returned
StartReturn(c) ==
    /\ mpc' = [mpc EXCEPT ![c] = "idle"]
    /\ mreq' = [mreq EXCEPT ![c] = NoRequest]
    /\ mid' = [mid EXCEPT ![c] = NoId]
    /\ mleft' = [mleft EXCEPT ![c] = <<>>]

\* a call runs on the first control task that is free
CallerRank(c) == IF c = "c1" THEN 1 ELSE 2

\* the ids the successful start calls returned, in order
started ==
    LET ok == SelectSeq(returns, LAMBDA r : r.resp.success)
    IN [i \in 1..Len(ok) |-> ok[i].resp.recording_id]

\* RecorderResponse::success(Some(id), ..) (protocol.rs:143-150)
response_success(c, id) ==
    [cmd |-> c, success |-> TRUE, message |-> "ok", recording_id |-> id]

\* RecorderResponse::error(message) (protocol.rs:152-159): no recording_id
response_error(c, msg) ==
    [cmd |-> c, success |-> FALSE, message |-> msg, recording_id |-> NoId]

generate_id_timestamp(t, k) == [name |-> "gen", ts |-> t, nonce |-> 0]

\* the id allocated when the caller supplies none: timestamp plus nonce
generate_id(t, k) == [name |-> "gen", ts |-> t, nonce |-> k]

\* a session as start_recording constructs it: state Recording, counters
\* zero, one byte counter per topic buffer (zero while the buffer is empty)
NewSession(req) ==
    [status |-> "Recording", topics |-> req.topics, meta |-> req.meta,
     device_id |-> req.device_id, total_recorded_bytes |-> 0,
     buffers |-> [t \in Topics |-> 0]]

\* the registry without the entry of id
Without(reg, id) == [i \in (DOMAIN reg) \ {id} |-> reg[i]]

\* the subscriptions of recording id
SubsOf(id) == {sb \in subs : sb[1] = id}

\* start_recording, first part: validate the request (device id non-empty),
\* allocate the recording id if the caller gave none
StartEnter(c, req) ==
    /\ mpc[c] = "idle"
    /\ starts < MaxStarts
    /\ starts' = starts + 1
    /\ IF req.device_id = ""
         THEN /\ StartReply(response_error("start", "invalid"), NoId)
              /\ UNCHANGED <<mpc, mreq, mid, mleft, nonce, allocated>>
         ELSE /\ NoReply
              /\ UNCHANGED returns
              /\ mreq' = [mreq EXCEPT ![c] = req]
              /\ mleft' = [mleft EXCEPT ![c] = req.topics]
              /\ mpc' = [mpc EXCEPT ![c] = "insert"]
              /\ IF req.recording_id = NoId
                   THEN /\ nonce' = nonce + 1
                        /\ mid' = [mid EXCEPT ![c] = generate_id(now, nonce + 1)]
                        /\ allocated' = Append(allocated, generate_id(now, nonce + 1))
                   ELSE /\ mid' = [mid EXCEPT ![c] = req.recording_id]
                        /\ UNCHANGED <<nonce, allocated>>
    /\ UNCHANGED <<registry, subs, delivered, orphaned, restVars>>

\* a start_recording call made directly on the manager, on the first control
\* task that is free
StartCall(c, req) ==
    /\ \A d \in Callers : mpc[d] = "idle" => CallerRank(c) <= CallerRank(d)
    /\ StartEnter(c, req)

StartInsertOverwrites(c) ==
    /\ mpc[c] = "insert"
    /\ NoReply
    /\ registry' = [i \in (DOMAIN registry) \cup {mid[c]} |->
                      IF i = mid[c] THEN NewSession(mreq[c]) ELSE registry[i]]
    /\ mpc' = [mpc EXCEPT ![c] = "subscribe"]
    /\ UNCHANGED <<subs, nonce, mreq, mid, mleft, returns, starts, delivered,
                   allocated, orphaned, restVars>>

StartInsertDeferred(c) ==
    /\ mpc[c] = "insert"
    /\ IF mid[c] \in DOMAIN registry
         THEN /\ StartReply(response_error("start", "exists"), mid[c])
              /\ StartReturn(c)
         ELSE /\ NoReply
              /\ mpc' = [mpc EXCEPT ![c] = "subscribe"]
              /\ UNCHANGED <<mreq, mid, mleft, returns>>
    /\ UNCHANGED <<registry, subs, nonce, starts, delivered, allocated,
                   orphaned, restVars>>

\* start_recording, under the registry lock: construct the session and insert
\* it; an id the registry already holds is refused, its entry left as it is
StartInsert(c) ==
    /\ mpc[c] = "insert"
    /\ IF mid[c] \in DOMAIN registry
         THEN /\ StartReply(response_error("start", "exists"), mid[c])
              /\ StartReturn(c)
              /\ UNCHANGED registry
         ELSE /\ NoReply
              /\ registry' = registry @@ (mid[c] :> NewSession(mreq[c]))
              /\ mpc' = [mpc EXCEPT ![c] = "subscribe"]
              /\ UNCHANGED <<mreq, mid, mleft, returns>>
    /\ UNCHANGED <<subs, nonce, starts, delivered, allocated, orphaned, restVars>>

\* start_recording, outside the lock: declare the subscription of the next
\* topic pattern; after the last one the call returns the id; a failed
\* declaration leads to the removal of the entry
StartSubscribe(c, ok) ==
    /\ mpc[c] = "subscribe"
    /\ IF ~ok
         THEN /\ NoReply
              /\ mpc' = [mpc EXCEPT ![c] = "remove"]
              /\ UNCHANGED <<subs, mreq, mid, mleft, returns>>
         ELSE /\ subs' = subs \cup {<<mid[c], Head(mleft[c])>>}
              /\ IF Len(mleft[c]) = 1
                   THEN /\ StartReply(response_success("start", mid[c]), mid[c])
                        /\ StartReturn(c)
                   ELSE /\ NoReply
                        /\ mleft' = [mleft EXCEPT ![c] = Tail(mleft[c])]
                        /\ UNCHANGED <<mpc, mreq, mid, returns>>
    /\ UNCHANGED <<registry, nonce, starts, delivered, allocated, orphaned,
                   restVars>>

StartRemoveKeepsEntry(c) ==
    /\ mpc[c] = "remove"
    /\ subs' = subs \ SubsOf(mid[c])
    /\ StartReply(response_error("start", "setup failed"), mid[c])
    /\ StartReturn(c)
    /\ UNCHANGED <<registry, nonce, starts, delivered, allocated, orphaned,
                   restVars>>

\* start_recording after a failed subscription setup: remove the entry, and
\* with it the session, its subscriptions and its topic buffers; return
\* failure
StartRemove(c) ==
    /\ mpc[c] = "remove"
    /\ registry' = Without(registry, mid[c])
    /\ subs' = subs \ SubsOf(mid[c])
    /\ StartReply(response_error("start", "setup failed"), mid[c])
    /\ StartReturn(c)
    /\ UNCHANGED <<nonce, starts, delivered, allocated, orphaned, restVars>>

\* the commands of the control channel other than start
Commands == {"pause", "resume", "cancel", "finish"}

\* the state machine of spec 4.5: the states from which a command is legal
LegalFrom(cmd) ==
    CASE cmd = "pause" -> {"Recording"}
      [] cmd = "resume" -> {"Paused"}
      [] cmd = "cancel" -> {"Recording", "Paused", "Uploading"}
      [] cmd = "finish" -> {"Recording", "Paused"}

\* and the state it leads to
Target(cmd) ==
    CASE cmd = "pause" -> "Paused"
      [] cmd = "resume" -> "Recording"
      [] cmd = "cancel" -> "Cancelled"
      [] cmd = "finish" -> "Uploading"

ManagerCommandLenient(cmd, id) ==
    /\ statusResp' = NotFoundStatus
    /\ asked' = NoId
    /\ IF id \notin DOMAIN registry
         THEN /\ cmdResp' = IF cmd = "cancel" THEN response_success(cmd, id)
                            ELSE response_error(cmd, "not found")
              /\ UNCHANGED <<registry, subs>>
         ELSE IF registry[id].status \notin LegalFrom(cmd)
                THEN /\ cmdResp' = response_error(cmd, "illegal")
                     /\ UNCHANGED <<registry, subs>>
                ELSE /\ registry' =
                          [registry EXCEPT ![id].status = Target(cmd),
                              ![id].buffers = IF cmd = "finish"
                                                THEN [t \in Topics |-> 0] ELSE @]
                     /\ subs' = IF cmd \in {"cancel", "finish"}
                                  THEN subs \ SubsOf(id) ELSE subs
                     /\ cmdResp' = IF cmd = "finish" THEN NoResponse
                                    ELSE response_success(cmd, id)
    /\ UNCHANGED <<nonce, mpc, mreq, mid, mleft, returns, starts,
                   delivered, allocated, orphaned, restVars>>

\* pause_recording, resume_recording, cancel_recording, and finish_recording
\* up to Uploading: look the session up and delegate; an unknown id is a
\* failure with "not found".  cancel and finish drop the subscriptions, finish
\* force-flushes every topic buffer; its response comes when it ends
ManagerCommand(cmd, id) ==
    /\ statusResp' = NotFoundStatus
    /\ asked' = NoId
    /\ IF id \notin DOMAIN registry
         THEN /\ cmdResp' = response_error(cmd, "not found")
              /\ UNCHANGED <<registry, subs>>
         ELSE IF registry[id].status \notin LegalFrom(cmd)
                THEN /\ cmdResp' = response_error(cmd, "illegal")
                     /\ UNCHANGED <<registry, subs>>
                ELSE /\ registry' =
                          [registry EXCEPT ![id].status = Target(cmd),
                              ![id].buffers = IF cmd = "finish"
                                                THEN [t \in Topics |-> 0] ELSE @]
                     /\ subs' = IF cmd \in {"cancel", "finish"}
                                  THEN subs \ SubsOf(id) ELSE subs
                     /\ cmdResp' = IF cmd = "finish" THEN NoResponse
                                    ELSE response_success(cmd, id)
    /\ UNCHANGED <<nonce, mpc, mreq, mid, mleft, returns, starts,
                   delivered, allocated, orphaned, restVars>>

ManagerFinishEndRemoves(id) ==
    /\ id \in DOMAIN registry
    /\ registry[id].status = "Uploading"
    /\ statusResp' = NotFoundStatus
    /\ asked' = NoId
    /\ registry' = Without(registry, id)
    /\ cmdResp' = response_success("finish", id)
    /\ UNCHANGED <<subs, nonce, mpc, mreq, mid, mleft, returns, starts,
                   delivered, allocated, orphaned, restVars>>

\* finish_recording, last part: Uploading -> Finished, the entry stays; a
\* finish overtaken by cancel returns without touching the registry
ManagerFinishEnd(id) ==
    /\ id \in DOMAIN registry
    /\ registry[id].status = "Uploading"
    /\ statusResp' = NotFoundStatus
    /\ asked' = NoId
    /\ registry' = [registry EXCEPT ![id].status = "Finished"]
    /\ cmdResp' = response_success("finish", id)
    /\ UNCHANGED <<subs, nonce, mpc, mreq, mid, mleft, returns, starts,
                   delivered, allocated, orphaned, restVars>>

RECURSIVE SumOver(_, _)
\* the sum of f over the set S
SumOver(f, S) ==
    IF S = {} THEN 0
    ELSE LET x == CHOOSE y \in S : TRUE IN f[x] + SumOver(f, S \ {x})

StatusSnapshotStale(id) ==
    IF id \notin DOMAIN registry THEN NotFoundStatus
    ELSE [success |-> TRUE, status |-> registry[id].status,
          meta |-> registry[id].meta, device_id |-> registry[id].device_id,
          active_topics |-> registry[id].topics,
          buffer_size_bytes |-> registry[id].total_recorded_bytes,
          total_recorded_bytes |-> registry[id].total_recorded_bytes]

\* the status snapshot of a recording: state, metadata echo, active topics,
\* aggregate buffer bytes (sum over topic buffers), total recorded bytes
\* (StatusResponse, protocol.rs:120-141); unknown id: failure with state Idle
StatusSnapshot(id) ==
    IF id \notin DOMAIN registry THEN NotFoundStatus
    ELSE [success |-> TRUE, status |-> registry[id].status,
          meta |-> registry[id].meta, device_id |-> registry[id].device_id,
          active_topics |-> registry[id].topics,
          buffer_size_bytes |-> SumOver(registry[id].buffers, Topics),
          total_recorded_bytes |-> registry[id].total_recorded_bytes]

ManagerGetStatusDrains(id) ==
    /\ statusResp' = StatusSnapshot(id)
    /\ asked' = id
    /\ cmdResp' = NoResponse
    /\ registry' = IF id \in DOMAIN registry
                     THEN [registry EXCEPT ![id].buffers = [t \in Topics |-> 0]]
                     ELSE registry
    /\ UNCHANGED <<subs, nonce, mpc, mreq, mid, mleft, returns,
                   starts, delivered, allocated, orphaned, restVars>>

\* get_status(id): look the session up and emit its snapshot
ManagerGetStatus(id) ==
    /\ statusResp' = StatusSnapshot(id)
    /\ asked' = id
    /\ cmdResp' = NoResponse
    /\ UNCHANGED <<registry, subs, nonce, mpc, mreq, mid, mleft, returns,
                   starts, delivered, allocated, orphaned, restVars>>

\* a subscription of recording id delivers a sample of n bytes on topic t:
\* while the session is Recording it is counted and pushed into the topic
\* buffer, whose counter returns to zero when the push flushes; otherwise it
\* is discarded
SubscriberDeliver(id, t, n) ==
    /\ <<id, t>> \in subs
    /\ delivered < MaxSamples
    /\ delivered' = delivered + 1
    /\ NoReply
    /\ IF id \notin DOMAIN registry
         THEN /\ orphaned' = orphaned \cup {id}
              /\ UNCHANGED registry
         ELSE /\ UNCHANGED orphaned
              /\ IF registry[id].status = "Recording"
                   THEN registry' =
                          [registry EXCEPT
                             ![id].total_recorded_bytes = @ + n,
                             ![id].buffers[t] =
                                 IF @ + n >= MaxBufferSize THEN 0 ELSE @ + n]
                   ELSE UNCHANGED registry
    /\ UNCHANGED <<subs, nonce, mpc, mreq, mid, mleft, returns, starts,
                   allocated, restVars>>

\* the ids a command or a status query may name: those the successful
\* starts returned, and the name callers choose themselves
TargetIds == Range(started) \cup {RecX}

(* ------------------ control interface (control.rs) -------------------- *)
\* serde_json::from_slice::<RecorderRequest> succeeds (control.rs:101) when
\* command is one of the five lower-case names (protocol.rs:18-26),
\* device_id is there (protocol.rs:84) and compression_type, if there, is a
\* known token (protocol.rs:62-69); recording_id, topics and the metadata
\* fields may be missing
Decodable(p) ==
    /\ p.command \in {"start", "pause", "resume", "cancel", "finish"}
    /\ p.device_id # Absent
    /\ p.compression_type \in {Absent, "none", "lz4", "zstd"}

\* the request a decodable payload decodes to; a missing recording_id is
\* None, which unwrap_or_default turns into the empty id (control.rs:120)
Decode(p) ==
    [recording_id |-> p.recording_id, device_id |-> p.device_id,
     topics |-> p.topics, meta |-> p.meta]

\* a step of the control interface that does not enter the manager
ManagerIdle ==
    /\ NoReply
    /\ UNCHANGED <<registry, subs, nonce, mpc, mreq, mid, mleft, starts,
                   delivered, allocated, returns, orphaned>>

\* the task spawned for the query of c ends
HandlerEnd(c) ==
    /\ qpc' = [qpc EXCEPT ![c] = "idle"]
    /\ qpay' = [qpay EXCEPT ![c] = NoPayload]
    /\ qnum' = [qnum EXCEPT ![c] = 0]

\* query.reply(..) with the encoded response, then return Ok(())
\* (control.rs:141-148, 104-110)
HandlerReply(c, resp) ==
    /\ qlog' = [qlog EXCEPT ![qnum[c]] =
                   [@ EXCEPT !.n = @ + 1, !.resp = resp, !.state = "ok"]]
    /\ HandlerEnd(c)

\* the `?` of control.rs:101: the handler returns the decoding error, the
\* spawned task logs it (control.rs:75-77) and ends; the query is dropped
HandlerError(c) ==
    /\ qlog' = [qlog EXCEPT ![qnum[c]].state = "err"]
    /\ HandlerEnd(c)

\* the decodable start payloads received so far
StartsReceived ==
    {i \in 1..Len(qlog) : /\ qlog[i].chan = "control"
                          /\ qlog[i].payload.command = "start"
                          /\ Decodable(qlog[i].payload)}

\* the queries received on a channel so far
ReceivedOn(ch) == {i \in 1..Len(qlog) : qlog[i].chan = ch}

ControlRecvInline(c, p) ==
    /\ \A d \in Callers : qpc[d] = "idle"
    /\ CallerRank(c) = 1
    /\ Cardinality(ReceivedOn("control")) < MaxQueries
    /\ (p.command = "start" /\ Decodable(p)) =>
           Cardinality(StartsReceived) < MaxStarts
    /\ qpc' = [qpc EXCEPT ![c] = "parse"]
    /\ qpay' = [qpay EXCEPT ![c] = p]
    /\ qnum' = [qnum EXCEPT ![c] = Len(qlog) + 1]
    /\ qlog' = Append(qlog, [chan |-> "control", payload |-> p, n |-> 0,
                              resp |-> NoResponse, sresp |-> NotFoundStatus,
                              state |-> "running"])
    /\ ManagerIdle
    /\ UNCHANGED restVars

\* the loop of run() receives a query on the command channel and spawns a
\* task for it (control.rs:70-79)
ControlRecv(c, p) ==
    /\ qpc[c] = "idle"
    /\ \A d \in Callers : qpc[d] = "idle" => CallerRank(c) <= CallerRank(d)
    /\ Cardinality(ReceivedOn("control")) < MaxQueries
    /\ (p.command = "start" /\ Decodable(p)) =>
           Cardinality(StartsReceived) < MaxStarts
    /\ qpc' = [qpc EXCEPT ![c] = "parse"]
    /\ qpay' = [qpay EXCEPT ![c] = p]
    /\ qnum' = [qnum EXCEPT ![c] = Len(qlog) + 1]
    /\ qlog' = Append(qlog, [chan |-> "control", payload |-> p, n |-> 0,
                              resp |-> NoResponse, sresp |-> NotFoundStatus,
                              state |-> "running"])
    /\ ManagerIdle
    /\ UNCHANGED restVars

\* the handler once its manager call has made a step: it replies when the
\* call has returned
AfterStart(c) ==
    IF mpc'[c] = "idle" THEN HandlerReply(c, cmdResp')
    ELSE /\ qpc' = [qpc EXCEPT ![c] = "start"]
         /\ UNCHANGED <<qpay, qnum, qlog>>

\* handle_control_query up to the first step of the manager call
\* (control.rs:96-138): no payload: reply an error and return; a payload
\* that does not decode: return the error without a reply; otherwise call
\* the manager operation of the command
ControlParse(c) ==
    /\ qpc[c] = "parse"
    /\ IF ~qpay[c].present
         THEN /\ HandlerReply(c, response_error("request", "missing payload"))
              /\ ManagerIdle
              /\ UNCHANGED restVars
         ELSE IF ~Decodable(qpay[c])
           THEN /\ HandlerError(c)
                /\ ManagerIdle
                /\ UNCHANGED restVars
           ELSE IF qpay[c].command = "start"
             THEN /\ StartEnter(c, Decode(qpay[c]))
                  /\ AfterStart(c)
             ELSE /\ ManagerCommand(qpay[c].command, Decode(qpay[c]).recording_id)
                  /\ IF cmdResp' = NoResponse
                       THEN /\ qpc' = [qpc EXCEPT ![c] = "finish"]
                            /\ UNCHANGED <<qpay, qnum, qlog>>
                       ELSE HandlerReply(c, cmdResp')

\* the handler inside start_recording(request).await (control.rs:117)
ControlStartInsert(c) ==
    /\ qpc[c] = "start"
    /\ StartInsert(c)
    /\ AfterStart(c)

ControlStartSubscribe(c, ok) ==
    /\ qpc[c] = "start"
    /\ StartSubscribe(c, ok)
    /\ AfterStart(c)

ControlStartRemove(c) ==
    /\ qpc[c] = "start"
    /\ StartRemove(c)
    /\ AfterStart(c)

\* the handler inside finish_recording(id).await (control.rs:133-137): the
\* wait for the flush and the metadata write are over, the call returns and
\* the handler replies; a session cancelled or removed meanwhile is left as
\* it is
ControlFinishEnd(c) ==
    /\ qpc[c] = "finish"
    /\ IF /\ qpay[c].recording_id \in DOMAIN registry
          /\ registry[qpay[c].recording_id].status = "Uploading"
         THEN ManagerFinishEnd(qpay[c].recording_id)
         ELSE /\ cmdResp' = response_error("finish", "cancelled")
              /\ statusResp' = NotFoundStatus
              /\ asked' = NoId
              /\ UNCHANGED <<registry, subs, nonce, mpc, mreq, mid, mleft,
                             returns, starts, delivered, allocated, orphaned,
                             restVars>>
    /\ HandlerReply(c, cmdResp')

\* a query on the status channel and its whole handler (control.rs:80-86,
\* 151-198): a key expression of fewer than three chunks is answered with
\* "Invalid status query format", any other with get_status of the third
ControlStatus(k) ==
    /\ Cardinality(ReceivedOn("status")) < MaxStatusQueries
    /\ IF k.parts < 3
         THEN /\ statusResp' = InvalidFormatStatus
              /\ asked' = NoId
              /\ cmdResp' = NoResponse
              /\ UNCHANGED <<registry, subs, nonce, mpc, mreq, mid, mleft,
                             returns, starts, delivered, allocated, orphaned,
                             restVars>>
         ELSE ManagerGetStatus(k.id)
    /\ qlog' = Append(qlog,
                      [chan |-> "status",
                       payload |-> Payload(TRUE, "status", k.id, Absent,
                                           Absent, <<>>, ""),
                       n |-> 1, resp |-> NoResponse, sresp |-> statusResp',
                       state |-> "ok"])
    /\ UNCHANGED <<qpc, qpay, qnum>>

(* ------------------------- shutdown (spec 4.6) ------------------------ *)
\* the sessions of the registry in a non-terminal state
Active == {id \in DOMAIN registry : registry[id].status \notin Terminal}

\* a manager call is in flight: a start_recording between its steps, or a
\* finish_recording waiting in Uploading
CallInFlight ==
    \/ \E c \in Callers : mpc[c] # "idle"
    \/ \E id \in DOMAIN registry : registry[id].status = "Uploading"

\* the process takes its steps until main returns
ProcessAlive == spc # "returned"
\* the control interface takes queries until the signal (main.rs:164-175)
Serving == spc = "running"

\* Ctrl+C: main leaves the select! and calls shutdown (main.rs:173-178),
\* which lists the sessions it has to finish
ShutdownCall ==
    /\ spc = "running"
    /\ spc' = "next"
    /\ stodo' = Active
    /\ squiet' = ~CallInFlight
    /\ ManagerIdle
    /\ UNCHANGED <<sid, sresult, pending, sfinished, restVars, ctlVars, serVars>>

\* shutdown finishes the next session of its list: finish_recording up to
\* Uploading, its force-flush leaving a flush task with the worker pool when
\* a topic buffer held samples; a session finish refuses is left as it is
ShutdownFinishBegin(id) ==
    /\ spc = "next"
    /\ id \in stodo
    /\ stodo' = stodo \ {id}
    /\ ManagerCommand("finish", id)
    /\ IF cmdResp' = NoResponse
         THEN /\ spc' = "wait"
              /\ sid' = id
              /\ pending' = IF \E t \in Topics : registry[id].buffers[t] > 0
                              THEN pending + 1 ELSE pending
         ELSE UNCHANGED <<spc, sid, pending>>
    /\ UNCHANGED <<sresult, squiet, sfinished, ctlVars, serVars>>

ShutdownFinishEndUnbounded(expired) ==
    /\ spc = "wait"
    /\ pending = 0
    /\ spc' = "next"
    /\ sid' = NoId
    /\ IF sid \in DOMAIN registry /\ registry[sid].status = "Uploading"
         THEN /\ ManagerFinishEnd(sid)
              /\ sfinished' = sfinished \cup {sid}
         ELSE /\ ManagerIdle
              /\ UNCHANGED <<sfinished, restVars>>
    /\ UNCHANGED <<stodo, sresult, pending, squiet, ctlVars, serVars>>

\* the finish shutdown is in: the bounded wait for the acknowledgement of the
\* flush tasks ends, by acknowledgement or by its deadline; the metadata
\* record is written and the session is Finished
ShutdownFinishEnd(expired) ==
    /\ spc = "wait"
    /\ pending = 0 \/ expired
    /\ spc' = "next"
    /\ sid' = NoId
    /\ IF sid \in DOMAIN registry /\ registry[sid].status = "Uploading"
         THEN /\ ManagerFinishEnd(sid)
              /\ sfinished' = sfinished \cup {sid}
         ELSE /\ ManagerIdle
              /\ UNCHANGED <<sfinished, restVars>>
    /\ UNCHANGED <<stodo, sresult, pending, squiet, ctlVars, serVars>>

\* no session is left on the list: the workers are dropped, the queue
\* drained with a deadline; shutdown returns, Ok when the queue drained
ShutdownDrain(expired) ==
    /\ spc = "next"
    /\ stodo = {}
    /\ pending = 0 \/ expired
    /\ sresult' = IF pending = 0 THEN "ok" ELSE "deadline"
    /\ spc' = "returned"
    /\ ManagerIdle
    /\ UNCHANGED <<stodo, sid, pending, squiet, sfinished, restVars, ctlVars,
                   serVars>>

\* a flush worker acknowledges a task: its write ended, well or not
WorkerAck ==
    /\ ProcessAlive
    /\ pending > 0
    /\ pending' = pending - 1
    /\ ManagerIdle
    /\ UNCHANGED <<spc, stodo, sid, sresult, squiet, sfinished, restVars,
                   ctlVars, serVars>>

\* a sample delivered while the process is alive; a push that flushes its
\* topic buffer leaves a flush task with the worker pool
ShutDeliver(id, t, n) ==
    /\ ProcessAlive
    /\ SubscriberDeliver(id, t, n)
    /\ pending' = IF /\ id \in DOMAIN registry
                     /\ registry[id].status = "Recording"
                     /\ registry[id].buffers[t] + n >= MaxBufferSize
                    THEN pending + 1 ELSE pending
    /\ UNCHANGED <<spc, stodo, sid, sresult, squiet, sfinished, ctlVars, serVars>>

\* a finish command of the control interface, its force-flush included
ShutCommand(cmd, id) ==
    /\ Serving
    /\ ManagerCommand(cmd, id)
    /\ pending' = IF /\ cmd = "finish"
                     /\ cmdResp' = NoResponse
                     /\ \E t \in Topics : registry[id].buffers[t] > 0
                    THEN pending + 1 ELSE pending
    /\ UNCHANGED <<spc, stodo, sid, sresult, squiet, sfinished, ctlVars, serVars>>

\* the steps of the task that runs shutdown
ShutdownTask ==
    \/ \E id \in stodo : ShutdownFinishBegin(id)
    \/ \E expired \in BOOLEAN : ShutdownFinishEnd(expired)
    \/ \E expired \in BOOLEAN : ShutdownDrain(expired)

(* --------------------- serializer (mcap_writer.rs) -------------------- *)
\* write_header (mcap_writer.rs:242-255): the line
\* ZENOH_MCAP|topic=<topic>|recording_id=<recording_id>|count=<count>
\* with the count in decimal digits, as writeln! formats it
write_header(topic, recording_id, count) ==
    LET RECURSIVE ToDecimal(_)
        ToDecimal(n) ==
            IF n < 10 THEN <<48 + n>>
            ELSE ToDecimal(n \div 10) \o <<48 + (n % 10)>>
    IN <<90, 69, 78, 79, 72, 95, 77, 67, 65, 80>>
       \o <<124, 116, 111, 112, 105, 99, 61>> \o topic
       \o <<124, 114, 101, 99, 111, 114, 100, 105, 110, 103, 95, 105, 100, 61>>
       \o recording_id
       \o <<124, 99, 111, 117, 110, 116, 61>> \o ToDecimal(count) \o <<NL>>

\* (len as u32).to_le_bytes() (mcap_writer.rs:209): the four low bytes of
\* the length, least significant first
to_le_bytes(n) ==
    <<n % 256, (n \div 256) % 256, (n \div 65536) % 256,
      (n \div 16777216) % 256>>

\* CompressionLevel::to_zstd_level and to_lz4_level (protocol.rs:40-59)
to_zstd_level(level) ==
    CASE level = "Fastest" -> 1 [] level = "Fast" -> 3 [] level = "Default" -> 5
      [] level = "Slow" -> 10 [] level = "Slowest" -> 19
to_lz4_level(level) ==
    CASE level = "Fastest" -> 1 [] level = "Fast" -> 3 [] level = "Default" -> 5
      [] level = "Slow" -> 9 [] level = "Slowest" -> 12

\* RecordedMessage::encode (mcap_writer.rs:183-193): every field behind its
\* key, a length before a string or byte field, a field of default value
\* left out; no schema with the default SchemaConfig (config/types.rs:274-281)
encode(msg) ==
    (IF msg.topic = <<>> THEN <<>> ELSE <<10, Len(msg.topic)>> \o msg.topic)
    \o (IF msg.timestamp_ns = 0 THEN <<>> ELSE <<16, msg.timestamp_ns>>)
    \o (IF msg.payload = <<>> THEN <<>> ELSE <<26, Len(msg.payload)>> \o msg.payload)

\* compress (mcap_writer.rs:263-304): the bytes as they are, or a frame of
\* the compressor chosen: its magic number, the native level it was made
\* at, and the data its decompressor gives back
compress(ctype, level, data) ==
    CASE ctype = "none" -> data
      [] ctype = "lz4" -> <<4, 34, 77, 24>> \o <<to_lz4_level(level)>> \o data
      [] ctype = "zstd" -> <<40, 181, 47, 253>> \o <<to_zstd_level(level)>> \o data

serialize_batch_always(b) ==
    LET recorded_msg(sample) ==
            [topic |-> b.topic,
             timestamp_ns |-> IF sample.ts = NoTs THEN NowNs ELSE sample.ts,
             payload |-> sample.payload]
        RECURSIVE Records(_)
        Records(i) ==
            IF i > Len(b.samples) THEN <<>>
            ELSE LET msg == encode(recorded_msg(b.samples[i]))
                 IN to_le_bytes(Len(msg)) \o msg \o Records(i + 1)
    IN compress(b.compression_type, b.compression_level,
                write_header(b.topic, b.recording_id, Len(b.samples))
                \o Records(1))

\* serialize_batch (mcap_writer.rs:154-234): nothing for no samples; else
\* the header line, then every sample as a message (its own timestamp, or
\* the wall clock) behind its 4-byte length, the whole compressed
serialize_batch(b) ==
    LET recorded_msg(sample) ==
            [topic |-> b.topic,
             timestamp_ns |-> IF sample.ts = NoTs THEN NowNs ELSE sample.ts,
             payload |-> sample.payload]
        RECURSIVE Records(_)
        Records(i) ==
            IF i > Len(b.samples) THEN <<>>
            ELSE LET msg == encode(recorded_msg(b.samples[i]))
                 IN to_le_bytes(Len(msg)) \o msg \o Records(i + 1)
    IN IF b.samples = <<>> THEN <<>>
       ELSE compress(b.compression_type, b.compression_level,
                     write_header(b.topic, b.recording_id, Len(b.samples))
                     \o Records(1))

\* the reader of a frame (frame layout of the specification, 4.1):
\* decompress a frame known by its magic number, take the header line up to
\* the first line feed and the count that ends it, read that many
\* length-prefixed records and nothing after them, and decode each record
\* field by field
read_frame(frame) ==
    LET StartsWith(data, pre) ==
            Len(data) >= Len(pre) /\ SubSeq(data, 1, Len(pre)) = pre
        NoDecoded == [ok |-> FALSE, count |-> 0, records |-> <<>>]
        NoMessage ==
            [ok |-> FALSE, topic |-> <<>>, timestamp_ns |-> 0, payload |-> <<>>]
        CountKey == <<124, 99, 111, 117, 110, 116, 61>>
        RECURSIVE FromDecimal(_)
        FromDecimal(ds) ==
            IF ds = <<>> THEN 0
            ELSE FromDecimal(SubSeq(ds, 1, Len(ds) - 1)) * 10 + (ds[Len(ds)] - 48)
        CountAt(header) ==
            {k \in 1..Len(header) :
                /\ k + Len(CountKey) <= Len(header)
                /\ SubSeq(header, k, k + Len(CountKey) - 1) = CountKey
                /\ \A j \in (k + Len(CountKey))..Len(header) :
                      header[j] \in 48..57}
        CountOf(header) ==
            IF CountAt(header) = {} THEN -1
            ELSE LET k == CHOOSE x \in CountAt(header) : TRUE
                 IN FromDecimal(SubSeq(header, k + Len(CountKey), Len(header)))
        RECURSIVE DecodeFields(_, _)
        DecodeFields(msg, acc) ==
            IF msg = <<>> THEN acc
            ELSE IF Len(msg) < 2 THEN NoMessage
            ELSE IF msg[1] = 16
              THEN DecodeFields(SubSeq(msg, 3, Len(msg)),
                                [acc EXCEPT !.timestamp_ns = msg[2]])
            ELSE IF msg[1] \in {10, 26} /\ Len(msg) >= 2 + msg[2]
              THEN DecodeFields(
                       SubSeq(msg, 3 + msg[2], Len(msg)),
                       IF msg[1] = 10
                         THEN [acc EXCEPT !.topic = SubSeq(msg, 3, 2 + msg[2])]
                         ELSE [acc EXCEPT !.payload = SubSeq(msg, 3, 2 + msg[2])])
            ELSE NoMessage
        from_le_bytes(data) ==
            data[1] + 256 * data[2] + 65536 * data[3] + 16777216 * data[4]
        RECURSIVE ReadRecords(_, _)
        ReadRecords(data, n) ==
            IF n = 0 THEN [ok |-> data = <<>>, records |-> <<>>]
            ELSE IF Len(data) < 4 \/ Len(data) < 4 + from_le_bytes(data)
              THEN [ok |-> FALSE, records |-> <<>>]
            ELSE LET len == from_le_bytes(data)
                     m == DecodeFields(SubSeq(data, 5, 4 + len),
                                       [NoMessage EXCEPT !.ok = TRUE])
                     rest == ReadRecords(SubSeq(data, 5 + len, Len(data)), n - 1)
                 IN [ok |-> m.ok /\ rest.ok, records |-> <<m>> \o rest.records]
        data == IF StartsWith(frame, <<4, 34, 77, 24>>)
                   \/ StartsWith(frame, <<40, 181, 47, 253>>)
                  THEN SubSeq(frame, 6, Len(frame))
                  ELSE frame
        nl == IF \E i \in 1..Len(data) : data[i] = NL
                THEN CHOOSE i \in 1..Len(data) :
                         data[i] = NL /\ \A j \in 1..(i - 1) : data[j] # NL
                ELSE 0
        header == SubSeq(data, 1, nl - 1)
    IN IF nl = 0 \/ CountOf(header) < 0
          \/ ~StartsWith(header, <<90, 69, 78, 79, 72, 95, 77, 67, 65, 80>>)
         THEN NoDecoded
         ELSE LET r == ReadRecords(SubSeq(data, nl + 1, Len(data)), CountOf(header))
              IN [ok |-> r.ok, count |-> CountOf(header),
                  records |-> IF r.ok THEN r.records ELSE <<>>]

\* a flush worker, or a test, calls serialize_batch on a serializer made
\* with McapSerializer::new(compression_type, compression_level)
SerializeCall(b) ==
    /\ ser_pc = "idle"
    /\ ser_pc' = "serialized"
    /\ ser_in' = b
    /\ ser_out' = serialize_batch(b)
    /\ UNCHANGED <<ser_dec, entry_topics, entry_names, timed, bufVars,
                   flush_queue, taskVars, sessVars, worker, retryVars, poolVars,
                   mgrVars, ctlVars, shutVars, envVars, histVars>>

\* a reader decodes the frame
ReadCall ==
    /\ ser_pc = "serialized"
    /\ ser_pc' = "decoded"
    /\ ser_dec' = read_frame(ser_out)
    /\ UNCHANGED <<ser_in, ser_out, entry_topics, entry_names, timed, bufVars,
                   flush_queue, taskVars, sessVars, worker, retryVars, poolVars,
                   mgrVars, ctlVars, shutVars, envVars, histVars>>

topic_to_entry_name_dropping(topic) ==
    SelectSeq(topic, LAMBDA ch : ch # 47)

\* topic_to_entry_name (storage/reductstore.rs:224-230, storage.rs:157-162):
\* trim_start_matches('/'), then replace('/', "_"), then replace("**", "all")
topic_to_entry_name(topic) ==
    LET RECURSIVE trim_start_matches(_)
        trim_start_matches(t) ==
            IF t # <<>> /\ Head(t) = 47 THEN trim_start_matches(Tail(t)) ELSE t
        replace_separators(t) ==
            [i \in 1..Len(t) |-> IF t[i] = 47 THEN 95 ELSE t[i]]
        RECURSIVE replace_wildcards(_)
        replace_wildcards(t) ==
            IF t = <<>> THEN <<>>
            ELSE IF Len(t) >= 2 /\ t[1] = 42 /\ t[2] = 42
              THEN <<97, 108, 108>> \o replace_wildcards(SubSeq(t, 3, Len(t)))
            ELSE <<Head(t)>> \o replace_wildcards(Tail(t))
    IN replace_wildcards(replace_separators(trim_start_matches(topic)))

\* the entry names of two topics of one recording
EntryNameCall(t1, t2) ==
    /\ ser_pc = "idle"
    /\ ser_pc' = "named"
    /\ entry_topics' = <<t1, t2>>
    /\ entry_names' = <<topic_to_entry_name(t1), topic_to_entry_name(t2)>>
    /\ UNCHANGED <<ser_in, ser_out, ser_dec, timed, bufVars, flush_queue,
                   taskVars, sessVars, worker, retryVars, poolVars, mgrVars,
                   ctlVars, shutVars, envVars, histVars>>

(* ------------- a push at a wall-clock time (buffer.rs) ---------------- *)
\* Duration::as_secs (buffer.rs:58-62, 110-115, 150-154): the whole seconds
\* of a time or of a duration, the fraction dropped
as_secs(ticks) == ticks \div TicksPerSecond

\* TopicBuffer::new at the time created with the duration max_buffer_duration,
\* then one push_sample of n bytes at the time created + elapsed, as a whole
\* (buffer.rs:43-68, 71-95, 98-124, 127-176): the sample is appended and
\* counted, should_flush compares the byte counter with max_buffer_size and
\* the whole seconds since last_flush_time with the whole seconds of
\* max_buffer_duration, and trigger_flush moves the list into a task
TimedPush(created, elapsed, max_buffer_duration, n) ==
    /\ ser_pc = "idle"
    /\ ser_pc' = "pushed"
    /\ LET last_flush_time_0 == as_secs(created)
           at == created + elapsed
           flush == \/ n >= MaxBufferSize
                    \/ as_secs(at) - last_flush_time_0 >= as_secs(max_buffer_duration)
       IN timed' = [created |-> created, at |-> at,
                    max_buffer_duration |-> max_buffer_duration,
                    bytes |-> n,
                    active |-> IF flush THEN <<>> ELSE <<n>>,
                    queue |-> IF flush THEN << <<n>> >> ELSE <<>>,
                    stats |-> IF flush THEN <<0, 0>> ELSE <<1, n>>]
    /\ UNCHANGED <<ser_in, ser_out, ser_dec, entry_topics, entry_names, bufVars,
                   flush_queue, taskVars, sessVars, worker, retryVars, poolVars,
                   mgrVars, ctlVars, shutVars, envVars, histVars>>

(* ------------------------------ clock --------------------------------- *)
Tick ==
    /\ now < MaxTime
    /\ now' = now + 1
    /\ UNCHANGED <<bufVars, flush_queue, taskVars, sessVars, workVars, nextId,
                   forced, histVars>>

(* ---------------- direct use of the buffer (tests/buffer_tests.rs) ---- *)
\* a task calls buffer.push_sample(sample)
PushCall(t, n) ==
    /\ status = "Idle"
    /\ nextId <= MaxPushes
    /\ \A u \in Pushers : pc[u] = "idle" => PusherRank(t) <= PusherRank(u)
    /\ PushLoad(t, <<nextId, n>>)
    /\ nextId' = nextId + 1
    /\ UNCHANGED <<sessVars, workVars, now, forced, discarded>>

\* a task calls buffer.force_flush()
ForceFlushCall ==
    /\ status = "Idle"
    /\ pc[Fin] = "idle"
    /\ forced < MaxForce
    /\ forced' = forced + 1
    /\ pc' = [pc EXCEPT ![Fin] = "swap"]
    /\ UNCHANGED <<bufVars, flush_queue, loc_front, loc_sample, loc_taken,
                   sessVars, workVars, now, nextId, histVars>>

\* force_flush returns Ok(()) (buffer.rs:181)
ForceFlushReturn ==
    /\ status = "Idle"
    /\ pc[Fin] = "flushed"
    /\ pc' = [pc EXCEPT ![Fin] = "idle"]
    /\ UNCHANGED <<bufVars, flush_queue, loc_front, loc_sample, loc_taken,
                   sessVars, workVars, envVars, histVars>>

\* the consumer end of the queue: flush_queue.pop()
QueuePop ==
    /\ flush_queue # <<>>
    /\ flush_queue' = Tail(flush_queue)
    /\ UNCHANGED <<bufVars, taskVars, sessVars, workVars, envVars, histVars>>

(* --------------------------- specifications --------------------------- *)
BufferNext ==
    \E t \in Tasks :
        /\ BufferStep(t)
        /\ UNCHANGED <<sessVars, workVars, envVars>>

Next ==
    \/ StartRecording
    \/ \E n \in PayloadSizes : Deliver(n)
    \/ BufferNext
    \/ PauseRecording
    \/ ResumeRecording
    \/ CancelRecording
    \/ FinishBegin
    \/ \E expired \in BOOLEAN : FinishWait(expired)
    \/ \E ok \in BOOLEAN : FinishMeta(ok)
    \/ FinishEnd
    \/ \E ok \in BOOLEAN : WorkerProcess(ok)
    \/ Tick

Spec == Init /\ [][Next]_vars

\* the task that runs finish_recording is scheduled as long as it can take a
\* step; nothing is assumed of the subscriber, of the worker or of the clock
FinishTask ==
    \/ BufferStep(Fin) /\ UNCHANGED <<sessVars, workVars, envVars>>
    \/ \E expired \in BOOLEAN : FinishWait(expired)
    \/ \E ok \in BOOLEAN : FinishMeta(ok)
    \/ FinishEnd

\* the recorder with the clock standing still: a time-triggered flush differs
\* from a size-triggered one only in the moment it happens, and finish reads
\* no clock
NextLive ==
    \/ StartRecording
    \/ \E n \in PayloadSizes : Deliver(n)
    \/ BufferNext
    \/ PauseRecording
    \/ ResumeRecording
    \/ CancelRecording
    \/ FinishBegin
    \/ \E expired \in BOOLEAN : FinishWait(expired)
    \/ \E ok \in BOOLEAN : FinishMeta(ok)
    \/ FinishEnd
    \/ \E ok \in BOOLEAN : WorkerProcess(ok)

LiveSpec == Init /\ [][NextLive]_vars /\ WF_vars(FinishTask)

NextBuf ==
    \/ \E t \in Pushers, n \in PayloadSizes : PushCall(t, n)
    \/ BufferNext
    \/ QueuePop

BufSpec == Init /\ [][NextBuf]_vars

\* concurrent pushes of small samples, empty payloads among them, on one
\* buffer whose queue nobody serves (tests/buffer_tests.rs:177-209)
NextConc ==
    \/ \E t \in Pushers, n \in {0, 1} : PushCall(t, n)
    \/ BufferNext

ConcSpec == Init /\ [][NextConc]_vars

\* a task inside push_sample is scheduled as long as it can take a step;
\* nothing is assumed of the consumer of the queue
PusherTask(t) == BufferStep(t) /\ UNCHANGED <<sessVars, workVars, envVars>>

BufLiveSpec ==
    Init /\ [][NextBuf]_vars /\ \A t \in Pushers : WF_vars(PusherTask(t))

\* pushes of one task racing with force_flush calls of another
NextForce ==
    \/ \E n \in PayloadSizes : PushCall(Sub, n)
    \/ BufferNext
    \/ ForceFlushCall
    \/ ForceFlushReturn
    \/ QueuePop

ForceSpec == Init /\ [][NextForce]_vars

\* no task is inside push_sample or force_flush
Quiescent == \A t \in Tasks : pc[t] = "idle"

\* sequential use of the buffer: a call begins when the previous one has
\* returned
NextSeq ==
    \/ Quiescent /\ \E n \in PayloadSizes : PushCall(Sub, n)
    \/ BufferNext
    \/ Quiescent /\ ForceFlushCall
    \/ ForceFlushReturn
    \/ QueuePop
    \/ Tick

SeqSpec == Init /\ [][NextSeq]_vars

\* the buffer used by one caller at a time, its queue drained by the pool
NextPool ==
    \/ Quiescent /\ \E n \in PayloadSizes : PushCall(Sub, n)
    \/ BufferNext
    \/ Quiescent /\ ForceFlushCall
    \/ ForceFlushReturn
    \/ \E w \in Workers : WorkerStep(w)

PoolSpec == Init /\ [][NextPool]_vars

\* every worker is scheduled as long as it can take a step: a task that
\* stays at the head of the queue is taken, serialization and write end
PoolLiveSpec ==
    Init /\ [][NextPool]_vars /\ \A w \in Workers : WF_vars(WorkerStep(w))

\* the manager serving the control and status channels, with the
\* subscriptions of its sessions; the clock stands still, the worst case for
\* an id made of a timestamp
NextMgr ==
    \/ \E c \in Callers, req \in StartRequests :
          StartCall(c, req) /\ UNCHANGED <<ctlVars, shutVars, serVars>>
    \/ \E c \in Callers : StartInsert(c) /\ UNCHANGED <<ctlVars, shutVars, serVars>>
    \/ \E c \in Callers, ok \in BOOLEAN :
          StartSubscribe(c, ok) /\ UNCHANGED <<ctlVars, shutVars, serVars>>
    \/ \E c \in Callers : StartRemove(c) /\ UNCHANGED <<ctlVars, shutVars, serVars>>
    \/ \E cmd \in Commands, id \in TargetIds :
          ManagerCommand(cmd, id) /\ UNCHANGED <<ctlVars, shutVars, serVars>>
    \/ \E id \in TargetIds : ManagerFinishEnd(id) /\ UNCHANGED <<ctlVars, shutVars, serVars>>
    \/ \E id \in TargetIds : ManagerGetStatus(id) /\ UNCHANGED <<ctlVars, shutVars, serVars>>
    \/ \E sb \in subs, n \in PayloadSizes :
          SubscriberDeliver(sb[1], sb[2], n) /\ UNCHANGED <<ctlVars, shutVars, serVars>>

MgrSpec == Init /\ [][NextMgr]_vars

\* the control interface in front of the manager: queries on the command
\* and status channels, each handled by a task of its own
NextCtl ==
    \/ \E c \in Callers, p \in ControlPayloads :
          ControlRecv(c, p) /\ UNCHANGED <<shutVars, serVars>>
    \/ \E c \in Callers : ControlParse(c) /\ UNCHANGED <<shutVars, serVars>>
    \/ \E c \in Callers : ControlStartInsert(c) /\ UNCHANGED <<shutVars, serVars>>
    \/ \E c \in Callers, ok \in BOOLEAN :
          ControlStartSubscribe(c, ok) /\ UNCHANGED <<shutVars, serVars>>
    \/ \E c \in Callers : ControlStartRemove(c) /\ UNCHANGED <<shutVars, serVars>>
    \/ \E c \in Callers : ControlFinishEnd(c) /\ UNCHANGED <<shutVars, serVars>>
    \/ \E k \in StatusKeys : ControlStatus(k) /\ UNCHANGED <<shutVars, serVars>>

CtlSpec == Init /\ [][NextCtl]_vars

\* the manager until the process ends: commands are taken until the signal,
\* the calls in flight at the signal go on beside shutdown
NextShut ==
    \/ \E c \in Callers, req \in StartRequests :
          Serving /\ StartCall(c, req) /\ UNCHANGED <<ctlVars, shutVars, serVars>>
    \/ \E c \in Callers :
          ProcessAlive /\ StartInsert(c) /\ UNCHANGED <<ctlVars, shutVars, serVars>>
    \/ \E c \in Callers, ok \in BOOLEAN :
          ProcessAlive /\ StartSubscribe(c, ok) /\ UNCHANGED <<ctlVars, shutVars, serVars>>
    \/ \E c \in Callers :
          ProcessAlive /\ StartRemove(c) /\ UNCHANGED <<ctlVars, shutVars, serVars>>
    \/ \E cmd \in Commands, id \in TargetIds : ShutCommand(cmd, id)
    \/ \E id \in TargetIds :
          /\ ProcessAlive
          /\ id # sid
          /\ ManagerFinishEnd(id)
          /\ UNCHANGED <<ctlVars, shutVars, serVars>>
    \/ \E sb \in subs, n \in PayloadSizes : ShutDeliver(sb[1], sb[2], n)
    \/ WorkerAck
    \/ ShutdownCall
    \/ \E id \in stodo : ShutdownFinishBegin(id)
    \/ \E expired \in BOOLEAN : ShutdownFinishEnd(expired)
    \/ \E expired \in BOOLEAN : ShutdownDrain(expired)

ShutSpec == Init /\ [][NextShut]_vars

\* one call of serialize_batch and a reader of its frame, or the entry
\* names of two topics, or one push at a wall-clock time
NextSer ==
    \/ /\ ser_pc = "idle"
       /\ \E b \in SerializerInputs : SerializeCall(b)
    \/ ReadCall
    \/ /\ ser_pc = "idle"
       /\ \E t1 \in EntryTopics, t2 \in EntryTopics : EntryNameCall(t1, t2)
    \/ /\ ser_pc = "idle"
       /\ \E created \in 0..MaxTicks, elapsed \in 0..MaxTicks,
             max_buffer_duration \in 1..MaxTicks, n \in PayloadSizes :
             TimedPush(created, elapsed, max_buffer_duration, n)

SerSpec == Init /\ [][NextSer]_vars

\* the task that runs shutdown is scheduled as long as it can take a step;
\* nothing is assumed of the workers, of the storage or of the other tasks
ShutLiveSpec == Init /\ [][NextShut]_vars /\ WF_vars(ShutdownTask)

\* one write_with_retry call of any implementation, with any argument and
\* any sequence of outcomes of its write attempts
NextRetry ==
    \/ \E b \in Backends, n \in 0..MaxRetries : RetryCall(b, n)
    \/ \E resp \in Responses : RetryAttempt(resp)
    \/ RetrySleep

RetrySpec == Init /\ [][NextRetry]_vars

\* the task that runs write_with_retry is scheduled, and its sleep ends
RetryLiveSpec == Init /\ [][NextRetry]_vars /\ WF_vars(NextRetry)

(* ============================ claims ================================== *)
sessionData == <<status, total_recorded_bytes, total_samples, total_bytes,
                 front_buffer, back_buffer, active_is_front, flush_queue>>

PauseResumeStep ==
    /\ (PauseRecording /\ status = "Recording")
        => (lastCmd'.success /\ get_status' = "Paused")
    /\ (ResumeRecording /\ status = "Paused")
        => (lastCmd'.success /\ get_status' = "Recording")
    /\ (lastCmd'.cmd = "pause" /\ lastCmd'.success) => get_status' = "Paused"
    /\ (lastCmd'.cmd = "resume" /\ lastCmd'.success) => get_status' = "Recording"

\* C1: pause on a Recording session succeeds and makes it Paused, resume on a
\* Paused session succeeds and makes it Recording again, and whenever the
\* last command was a successful pause (resume), get_status reports Paused
\* (Recording).
C1_PauseResume == [][PauseResumeStep]_vars

\* a resume has succeeded after a pause had, and the status is Recording again
C1_Witness ==
    /\ lastCmd = ResponseSuccess("resume")
    /\ get_status = "Recording"
    /\ nextId > 1

IllegalStep ==
    /\ (PauseRecording /\ status # "Recording")
        => (~lastCmd'.success /\ UNCHANGED sessionData)
    /\ (ResumeRecording /\ status # "Paused")
        => (~lastCmd'.success /\ UNCHANGED sessionData)
    /\ (FinishBegin /\ status \in {"Uploading", "Finished", "Cancelled"})
        => (~lastCmd'.success /\ UNCHANGED sessionData)

TerminalStep ==
    status \in Terminal =>
      /\ status' = status
      /\ (PauseRecording \/ ResumeRecording \/ CancelRecording \/ FinishBegin)
            => ~lastCmd'.success

CancelStep ==
    /\ (CancelRecording /\ status \in {"Recording", "Paused", "Uploading"})
        => (lastCmd'.success /\ status' = "Cancelled")
    /\ status = "Cancelled" => status' = "Cancelled"

\* C6: cancel is accepted from Recording, Paused and Uploading and makes the
\* state Cancelled, and a Cancelled state is never overwritten, in particular
\* not by the finish that was in its Uploading phase.
C6_CancelWins == [][CancelStep]_vars

\* the finish that was cancelled in its Uploading phase has run to its end
C6_Witness ==
    /\ status = "Cancelled"
    /\ pc[Fin] = "returned"
    /\ finishResp = "cancelled"

FinishAcceptStep ==
    (FinishBegin /\ status \in {"Recording", "Paused"})
        => (lastCmd'.success /\ status' = "Uploading")

FinishDone ==
    /\ pc[Fin] = "returned"
    /\ \/ status = "Finished" /\ finishResp = "ok"
       \/ status = "Cancelled" /\ finishResp = "cancelled"

\* C5: a finish on a Recording or Paused session is accepted and makes it
\* Uploading, and an Uploading session leads to finish having returned with
\* the session Finished, or Cancelled if a cancel was accepted meanwhile,
\* whatever the worker's writes and the metadata write do.
C5_FinishCompletes ==
    /\ [][FinishAcceptStep]_vars
    /\ (status = "Uploading") ~> FinishDone

\* finish returned Finished although the worker's write of the flushed
\* sample and the metadata write both failed
C5_Witness ==
    /\ pc[Fin] = "returned"
    /\ status = "Finished"
    /\ worker = "failed"
    /\ metadata = "failed"
    /\ \E i \in 1..Len(emitted) : emitted[i].samples # <<>>

(* ------------------------- flush-task history ------------------------- *)
\* the places <<task, position>> of the flush tasks built so far
Slots == UNION {{<<i, j>> : j \in 1..Len(emitted[i].samples)} : i \in 1..Len(emitted)}
IdAt(sl) == emitted[sl[1]].samples[sl[2]][1]
\* how often sample id appears in the flush tasks
Occurrences(id) == Cardinality({sl \in Slots : IdAt(sl) = id})
NoTaskDropped == \A i \in 1..Len(emitted) : emitted[i].ok
FinishReturned == pc[Fin] = "returned" /\ finishResp = "ok"
\* ids of the samples that were delivered while the session was Recording
accepted == (1..(nextId - 1)) \ discarded

\* C4: after finish has returned, if no flush task was dropped, every sample
\* whose push_sample has returned is in exactly one flush task and neither
\* list of the buffer holds a sample.
C4_FinishFlushesAll ==
    (FinishReturned /\ NoTaskDropped) =>
        /\ \A id \in completed : Occurrences(id) = 1
        /\ front_buffer = <<>>
        /\ back_buffer = <<>>

NoEnqueueStep == status = "Cancelled" => emitted' = emitted

\* C7: once the session is Cancelled no flush task is built or enqueued for
\* the recording any more.
C7_NoFlushAfterCancel == [][NoEnqueueStep]_vars

\* every sample held by the buffer, by a task or by a flush task
Held(t) == IF pc[t] = "append" THEN <<loc_sample[t]>> ELSE <<>>
RECURSIVE EmittedBytes(_)
EmittedBytes(i) ==
    IF i = 0 THEN 0 ELSE SumBytes(emitted[i].samples) + EmittedBytes(i - 1)
HeldBytes ==
    SumBytes(front_buffer) + SumBytes(back_buffer) + EmittedBytes(Len(emitted))
    + SumBytes(Held(Sub)) + SumBytes(loc_taken[Sub]) + SumBytes(loc_taken[Fin])
HeldIds ==
    {s[1] : s \in Range(front_buffer) \cup Range(back_buffer)
                  \cup Range(loc_taken[Sub]) \cup Range(loc_taken[Fin])}
    \cup {IdAt(sl) : sl \in Slots} \cup InFlight

\* the first half of C8: a sample delivered while the session is not
\* Recording is in no list, in no task and in no counter
PausedDiscarded ==
    /\ HeldIds \cap discarded = {}
    /\ total_recorded_bytes = HeldBytes

\* C8: samples delivered while the session is not Recording are never
\* appended, counted or flushed, and once finish has returned the flush tasks
\* hold exactly the samples that were delivered while it was Recording.
C8_OnlyRecordedSamplesFlushed ==
    /\ PausedDiscarded
    /\ FinishReturned => \A id \in accepted : Occurrences(id) = 1

\* C9: if push A returned before push B began, A is in no flush task that was
\* enqueued after the task holding B, and in one task A comes before B.
C9_PushOrder ==
    \A sa \in Slots, sb \in Slots :
        (/\ <<IdAt(sa), IdAt(sb)>> \in before
         /\ emitted[sa[1]].ok
         /\ emitted[sb[1]].ok)
        => (sa[1] < sb[1] \/ (sa[1] = sb[1] /\ sa[2] < sb[2]))

SizeFlushStep ==
    \A t \in Pushers :
        /\ (pc[t] = "check" /\ pc'[t] = "idle")
            => SumBytes(sincePush) < MaxBufferSize
        /\ (pc[t] = "enqueue" /\ pc'[t] = "idle")
            => /\ emitted' = Append(emitted, [samples |-> sincePush,
                                              ok |-> Len(flush_queue) < QueueCap])
               /\ Len(flush_queue) < QueueCap
                    => flush_queue' = Append(flush_queue, sincePush)
               /\ stats' = <<0, 0>>
               /\ front_buffer' = <<>> /\ back_buffer' = <<>>

\* C10: when the buffer is used by one caller at a time, a push that brings
\* the bytes pushed since the last flush to max_buffer_size or more does not
\* return without flushing; the flush task of a push holds exactly the
\* samples pushed since the last flush, in push order, it is put in the queue
\* unless the queue is full, and the counters are zero afterwards.
C10_SizeFlush == [][SizeFlushStep]_vars

\* two pushes of one byte each were flushed together by the second one
C10_Witness ==
    /\ Quiescent
    /\ stats = <<0, 0>>
    /\ \E i \in 1..Len(emitted) :
          /\ emitted[i].ok
          /\ Len(emitted[i].samples) = 2
          /\ SumBytes(emitted[i].samples) >= MaxBufferSize
          /\ now - last_flush_time < MaxBufferDuration

TimeFlushStep ==
    \A t \in Pushers :
        /\ (pc[t] = "check" /\ pc'[t] = "idle")
            => now - last_flush_time < MaxBufferDuration
        /\ (pc[t] = "reset_time" /\ pc'[t] = "enqueue")
            => last_flush_time' = now
        /\ (pc[t] = "enqueue" /\ pc'[t] = "idle")
            => /\ Len(emitted') = Len(emitted) + 1
               /\ loc_sample[t] \in Range(emitted'[Len(emitted')].samples)

FullQueueStep ==
    \A t \in Tasks :
        (pc[t] = "enqueue" /\ pc'[t] # "enqueue" /\ Len(flush_queue) >= QueueCap)
            => /\ flush_queue' = flush_queue
               /\ pc'[t] = (IF t = Fin THEN "flushed" ELSE "idle")
               /\ ~emitted'[Len(emitted')].ok
               /\ stats' = <<0, 0>>
               /\ front_buffer' = <<>> /\ back_buffer' = <<>>

\* C12: the queue never holds more than its capacity; a flush that finds it
\* full leaves the queued tasks as they are, drops its own task and returns,
\* and (one caller at a time) leaves both lists empty and both counters zero.
C12_QueueFull ==
    /\ [](Len(flush_queue) <= QueueCap)
    /\ [][FullQueueStep]_vars

\* a task holding a sample was dropped on a full queue, and a later flush
\* was queued after the consumer had made room
C12_Witness ==
    /\ Quiescent
    /\ \E i \in 1..Len(emitted), j \in 1..Len(emitted) :
          /\ i < j
          /\ ~emitted[i].ok
          /\ emitted[i].samples # <<>>
          /\ emitted[j].ok

\* everything the buffer, the queue, the session and the worker record; the
\* positions and locals of the running calls are not part of it
recorded == <<bufVars, flush_queue, sessVars, workVars>>

DropCountedStep ==
    \A t \in Tasks :
        (pc[t] = "enqueue" /\ pc'[t] # "enqueue" /\ Len(flush_queue) >= QueueCap)
            => recorded' # recorded

\* C13: every flush task dropped on a full queue is counted for the session:
\* a drop count that equals the number of failed enqueue attempts changes
\* with each of them, so the step that drops a task changes what the buffer
\* or the session records.
C13_DropsCounted == [][DropCountedStep]_vars

\* C14: at most one flush task of the topic buffer is in the queue at any
\* time (the model has one topic buffer, so every queued task is its own).
C14_OneTaskInFlight == Len(flush_queue) <= 1

ActiveAppendStep ==
    \A t \in Pushers :
        (pc[t] = "append" /\ pc'[t] = "add_samples")
            => /\ loc_front[t] = active_is_front
               /\ active_is_front => front_buffer' = Append(front_buffer, loc_sample[t])
               /\ ~active_is_front => back_buffer' = Append(back_buffer, loc_sample[t])

\* C15: every append of push_sample goes to the list that is the active one
\* at the moment of the append, under every interleaving of pushes and
\* flushes on the buffer.
C15_ActiveAppend == [][ActiveAppendStep]_vars

\* the list push_sample would append to now
ActiveList == IF active_is_front THEN front_buffer ELSE back_buffer

\* C16: whenever no push and no flush is in progress on the buffer, stats()
\* is the number of samples and the sum of the payload lengths of the active
\* list, whatever interleaving of pushes and flushes came before.
C16_StatsOfActiveList ==
    Quiescent => stats = <<Len(ActiveList), SumBytes(ActiveList)>>

\* C17: every push_sample call returns, also when the queue is full and no
\* task is ever taken from it, and when other pushes and flushes run on the
\* buffer at the same time.
C17_PushTerminates ==
    \A t \in Pushers : (pc[t] # "idle") ~> (pc[t] = "idle")

\* all pushes have returned, one of them after its flush task was dropped
\* on the full queue from which nothing had been taken
C17_Witness ==
    /\ Quiescent
    /\ nextId > MaxPushes
    /\ Len(flush_queue) = QueueCap
    /\ \E i \in 1..Len(emitted) : ~emitted[i].ok /\ emitted[i].samples # <<>>

\* the contract of a write_with_retry call whose retry budget is n
RetryContract(n) ==
    /\ calls <= n + 1
    /\ (rpc = "done" /\ result.ok) => (result = last /\ result.at = calls)
    /\ (rpc = "done" /\ ~result.ok)
          => (calls = n + 1 /\ result = last /\ result.at = calls)
    /\ rpc = "done" => (result.ok \/ result.err \in Responses \ {"2xx"})

\* the contract with the budget the implementation actually uses
RetryContractEffective == RetryContract(retries)

\* every call returns
RetryTerminates == (rpc = "write") ~> (rpc = "done")

\* C18: write_with_retry(max_retries = n) calls write_record at most n+1
\* times, returns Ok at the first success, returns the error of the last
\* attempt when all n+1 attempts failed, and always returns; for each of the
\* three implementations and every n from 0.
C18_RetryBound ==
    /\ [](RetryContract(max_retries))
    /\ RetryTerminates

RECURSIVE Pow2(_)
Pow2(k) == IF k = 0 THEN 1 ELSE 2 * Pow2(k - 1)

\* the wait before retry k (k = 0, 1, ...) that the backoff rule prescribes
Backoff(k) == Min(InitialDelayMs * Pow2(k), MaxDelayMs)

\* C19: the wait before retry k of write_with_retry is
\* min(100 ms * 2^k, 30 s), every failed attempt but the last is followed by
\* one wait, and no wait follows the last failed attempt or a success.
C19_Backoff ==
    /\ \A k \in 1..Len(waits) : waits[k] = Backoff(k - 1)
    /\ rpc = "write" => Len(waits) = calls
    /\ rpc \in {"sleep", "done"} => Len(waits) = calls - 1

\* a call whose attempts all failed has waited long enough to reach the cap,
\* and did not wait after its last attempt
C19_Witness ==
    /\ rpc = "done"
    /\ ~result.ok
    /\ calls = MaxRetries + 1
    /\ Len(waits) = MaxRetries
    /\ \E k \in 2..Len(waits) :
          waits[k] = MaxDelayMs /\ waits[k - 1] < MaxDelayMs

PermanentStep ==
    (rpc = "write" /\ calls' = calls + 1) =>
        /\ last'.err = "400" => (rpc' = "done" /\ result' = last')
        /\ (last'.err \in {"network", "5xx"} /\ attempt < retries)
              => rpc' = "sleep"

\* C20: an attempt that meets a 4xx response other than conflict ends the
\* call with that error and no further attempt, while an attempt that meets
\* a network failure or a 5xx response is retried while the count allows.
C20_PermanentNotRetried == [][PermanentStep]_vars

\* the flush tasks whose enqueue succeeded, in order
Enqueued == SelectSeq(emitted, LAMBDA e : e.ok)

\* most flush tasks one run of PoolSpec builds
MaxTasks == MaxPushes + MaxForce

\* the tasks taken so far followed by the tasks still queued are the tasks
\* enqueued: each was taken once, by one worker, in queue order
TakenOnce ==
    [i \in 1..Len(dequeued) |-> dequeued[i].samples] \o flush_queue
        = [i \in 1..Len(Enqueued) |-> Enqueued[i].samples]

\* C21: no flush worker ends its loop, whatever the outcome of serialization
\* and of write_with_retry for the tasks it took, so the number of running
\* workers stays FlushWorkers; each enqueued task is taken once, by one
\* worker; and under fair scheduling of the workers the k-th task enqueued
\* is eventually the k-th task taken.
C21_WorkersSurvive ==
    /\ [](RunningWorkers = Workers)
    /\ []TakenOnce
    /\ \A k \in 1..MaxTasks : (Len(Enqueued) >= k) ~> (Len(dequeued) >= k)

\* a worker whose write finally failed has since completed another task
C21_Witness ==
    /\ Len(outcomes) >= 2
    /\ ~outcomes[1].ok
    /\ \E j \in 2..Len(outcomes) : outcomes[j].by = outcomes[1].by
    /\ RunningWorkers = Workers

\* what the manager holds: the sessions and their subscriptions
managerData == <<registry, subs>>

UnknownIdStep ==
    \A id \in TargetIds \ DOMAIN registry :
        /\ \A cmd \in Commands :
              ManagerCommand(cmd, id) =>
                  /\ ~cmdResp'.success
                  /\ cmdResp'.message = "not found"
                  /\ cmdResp'.recording_id = NoId
                  /\ managerData' = managerData
        /\ ManagerGetStatus(id) =>
              /\ ~statusResp'.success
              /\ statusResp'.status = "Idle"
              /\ managerData' = managerData

\* C22: pause, resume, cancel and finish on an id the registry does not hold
\* return success = false with a message "not found" and no recording_id,
\* get_status on such an id returns success = false with status Idle, and
\* none of these calls changes the registry or the subscriptions.
C22_UnknownId == [][UnknownIdStep]_vars

\* a finish on an unknown id was just refused while the registry holds a
\* session
C22_Witness ==
    /\ cmdResp = response_error("finish", "not found")
    /\ DOMAIN registry # {}
    /\ RecX \notin DOMAIN registry

\* the start calls for id that have returned
ReturnsFor(id) == {i \in 1..Len(returns) : returns[i].id = id}

\* of the start calls for one id that have returned, at most one succeeded;
\* and once none is in progress and none met a failed subscription setup,
\* exactly one did, the others were refused
OneStartPerId ==
    \A id \in {returns[i].id : i \in 1..Len(returns)} \ {NoId} :
        LET won == {i \in ReturnsFor(id) : returns[i].resp.success}
        IN /\ Cardinality(won) <= 1
           /\ \A i \in won : returns[i].resp.recording_id = id
           /\ ( /\ \A c \in Callers : mid[c] # id
                /\ \A i \in ReturnsFor(id) :
                       returns[i].resp.message # "setup failed" )
                => /\ Cardinality(won) = 1
                   /\ id \in DOMAIN registry
                   /\ \A i \in ReturnsFor(id) \ won :
                          returns[i].resp = response_error("start", "exists")

\* no step of a start call changes an entry the registry already holds, in
\* whatever state it is, except the removal of its own entry after a failed
\* setup
NoOverwriteStep ==
    \A c \in Callers :
        (StartInsert(c) \/ (\E ok \in BOOLEAN : StartSubscribe(c, ok)))
            => \A id \in DOMAIN registry :
                  id \in DOMAIN registry' /\ registry'[id] = registry[id]

NoDuplicates(seq) == \A i, j \in 1..Len(seq) : seq[i] = seq[j] => i = j

\* the step that allocates an id yields one that is not empty, was not
\* allocated before and is not in the registry
AllocateStep ==
    allocated' # allocated =>
        LET id == allocated'[Len(allocated')]
        IN /\ id.name # ""
           /\ id \notin Range(allocated)
           /\ id \notin DOMAIN registry

FailedStartStep ==
    (returns' # returns /\ ~cmdResp'.success) =>
        LET id == returns'[Len(returns')].id
        IN IF cmdResp'.message = "setup failed"
             THEN /\ id \in DOMAIN registry
                  /\ registry' = Without(registry, id)
                  /\ subs' = {sb \in subs : sb[1] # id}
             ELSE managerData' = managerData

\* the registry holds the sessions of the successful starts and of the
\* starts in progress that have inserted theirs, and no other
RegistryExact ==
    DOMAIN registry =
        Range(started) \cup
            {mid[c] : c \in {d \in Callers : mpc[d] \in {"subscribe", "remove"}}}

\* C25: a start_recording that fails returns a failure response and leaves
\* in the registry exactly what was there before it: refused at validation
\* or at the insert it changes nothing, after a failed subscription setup
\* its session, its subscriptions and its topic buffers are removed; the
\* registry never holds a session of a failed start.
C25_FailedStartLeavesNothing == [][FailedStartStep]_vars /\ []RegistryExact

\* the only start declared one subscription, a sample arrived on it, the
\* next declaration failed and the call has returned failure
C25_Witness ==
    /\ starts = 1
    /\ delivered = 1
    /\ Len(returns) = 1
    /\ returns[1].resp = response_error("start", "setup failed")
    /\ DOMAIN registry = {}
    /\ subs = {}

\* for a recording whose start succeeded: the step that completes its cancel
\* or its finish leaves a status query that succeeds and reports Cancelled or
\* Finished, and no later step removes the entry or leaves the terminal state
EntryKeptStep ==
    \A id \in Range(started) :
        /\ id \in DOMAIN registry'
        /\ (ManagerCommand("cancel", id) /\ cmdResp'.success) =>
              (StatusSnapshot(id)'.success /\ StatusSnapshot(id)'.status = "Cancelled")
        /\ ManagerFinishEnd(id) =>
              (StatusSnapshot(id)'.success /\ StatusSnapshot(id)'.status = "Finished")
        /\ registry[id].status \in Terminal =>
              StatusSnapshot(id)' = StatusSnapshot(id)

\* C26: the entry of a recording whose start succeeded is never removed:
\* every id a successful start returned is in the registry, and once its
\* finish or its cancel has completed get_status(id) succeeds and reports
\* Finished or Cancelled from then on.
C26_EntryKept == [](Range(started) \subseteq DOMAIN registry) /\ [][EntryKeptStep]_vars

\* one recording was finished, another cancelled, and a status query for
\* the finished one has just been answered
C26_Witness ==
    /\ asked \in Range(started)
    /\ statusResp.success
    /\ statusResp.status = "Finished"
    /\ \E id \in Range(started) : registry[id].status = "Cancelled"

\* a step that answers get_status(id) changes no session, subscription,
\* buffer, counter, queue or call in progress, and when the step before it
\* answered get_status(id) too, the two snapshots are the same
PureReadStep ==
    \A id \in TargetIds :
        ManagerGetStatus(id) =>
            /\ UNCHANGED <<registry, subs, nonce, mpc, mreq, mid, mleft,
                           returns, restVars>>
            /\ asked = id => statusResp' = statusResp

\* C27: get_status is a pure read: it changes neither the registry, nor a
\* session's state, counters and buffers, nor the subscriptions, the queue
\* or a call in progress, and two successive calls for one id with no step
\* between them return identical snapshots.
C27_StatusPureRead == [][PureReadStep]_vars

\* a status query was just answered for a recording that has recorded
\* bytes and holds bytes in a topic buffer
C27_Witness ==
    /\ asked \in DOMAIN registry
    /\ statusResp = StatusSnapshot(asked)
    /\ statusResp.status = "Recording"
    /\ statusResp.buffer_size_bytes > 0
    /\ statusResp.total_recorded_bytes > statusResp.buffer_size_bytes

\* total_recorded_bytes grows by the payload length on the step that hands a
\* sample to push_sample and is left alone by every other step
MonotonicStep ==
    /\ total_recorded_bytes' >= total_recorded_bytes
    /\ \A n \in PayloadSizes :
          (Deliver(n) /\ Accepts) => total_recorded_bytes' = total_recorded_bytes + n
    /\ (\A n \in PayloadSizes : ~(Deliver(n) /\ Accepts))
          => total_recorded_bytes' = total_recorded_bytes

\* C28: total_recorded_bytes of a session never decreases: it grows by the
\* payload length when a sample is pushed and no other step changes it, not
\* the flush that resets the buffer counters, not the drop of a flush task
\* on a full queue, not a storage write that finally fails.
C28_TotalMonotonic == [][MonotonicStep]_vars

\* four bytes were recorded; the buffer counters are back at zero after the
\* flushes, the task of the last flush was dropped on the full queue and a
\* write has finally failed
C28_Witness ==
    /\ total_recorded_bytes = 4
    /\ total_bytes = 0
    /\ \E i \in 1..Len(emitted) : ~emitted[i].ok
    /\ worker = "failed"

\* the snapshot of a session nothing has happened to since its construction
FreshSnapshot(req) ==
    [success |-> TRUE, status |-> "Recording", meta |-> req.meta,
     device_id |-> req.device_id, active_topics |-> req.topics,
     buffer_size_bytes |-> 0, total_recorded_bytes |-> 0]

\* the step on which the start call of c returns success: the snapshot of
\* its recording echoes the request, its byte counts are zero when no sample
\* has been delivered yet, and its status is Recording (for a generated id,
\* which no command can have named before this step)
StartedStep ==
    \A c \in Callers :
        (mpc[c] = "subscribe" /\ mpc'[c] = "idle" /\ cmdResp'.success) =>
            \A id \in {mid[c]}, req \in {mreq[c]} :
               /\ cmdResp'.recording_id = id
               /\ StatusSnapshot(id)'.success
               /\ StatusSnapshot(id)'.active_topics = req.topics
               /\ StatusSnapshot(id)'.meta = req.meta
               /\ StatusSnapshot(id)'.device_id = req.device_id
               /\ delivered = 0 =>
                     /\ StatusSnapshot(id)'.total_recorded_bytes = 0
                     /\ StatusSnapshot(id)'.buffer_size_bytes = 0
               /\ (delivered = 0 /\ req.recording_id = NoId) =>
                     StatusSnapshot(id)' = FreshSnapshot(req)

\* buffer_size_bytes of every snapshot is the sum of the byte counters of
\* the recording's topic buffers
BufferBytesIsSum ==
    \A id \in DOMAIN registry :
        StatusSnapshot(id).buffer_size_bytes
            = registry[id].buffers["/a"] + registry[id].buffers["/b"]

SubscribedInRegistry ==
    /\ \A sb \in subs : sb[1] \in DOMAIN registry
    /\ orphaned = {}

\* C30: a session is in the registry before its subscriptions can deliver
\* the first sample: in no reachable state has a sample of a recording been
\* pushed while the recording was absent from the registry.
C30_InsertPrecedesSubscribe == []SubscribedInRegistry

\* a start is still declaring its subscriptions and the first of them has
\* already delivered a sample, counted by the session in the registry
C30_Witness ==
    \E c \in Callers :
        /\ mpc[c] = "subscribe"
        /\ Len(mleft[c]) = 1
        /\ Len(mreq[c].topics) = 2
        /\ mid[c] \in DOMAIN registry
        /\ registry[mid[c]].total_recorded_bytes > 0

\* the queries of the command channel whose handler has ended
Handled == {i \in ReceivedOn("control") : qlog[i].state # "running"}

\* a request the handler cannot dispatch: no payload, or one not decodable
BadRequest(p) == ~p.present \/ ~Decodable(p)

\* every handled query of the command channel got exactly one response, an
\* error one when the request was bad
AnsweredOnce ==
    \A i \in Handled :
        /\ qlog[i].n = 1
        /\ BadRequest(qlog[i].payload) => ~qlog[i].resp.success

\* C31: every query received on the command channel is answered with
\* exactly one response on that query: the manager's result for a decodable
\* request, an error response for a missing or undecodable payload.
C31_AnsweredOnce == []AnsweredOnce

\* a handler step for a bad request leaves the manager's data as it is
BadRequestStep ==
    \A c \in Callers :
        (qpc[c] = "parse" /\ qpc'[c] = "idle" /\ BadRequest(qpay[c])) =>
            UNCHANGED <<registry, subs, nonce, mpc, mreq, mid, mleft, starts,
                        delivered, allocated, returns, orphaned>>

\* the part of C31 the code keeps: a bad request changes no manager state
C31_BadRequestNoChange == [][BadRequestStep]_vars

\* a handler is inside a long operation of the manager: the subscription
\* setup of a start, or the flush wait and metadata write of a finish
InLongOperation(c) == qpc[c] \in {"start", "finish"}

\* while a handler is inside a long operation, the loop can receive the
\* next command query, a received query can be decoded and dispatched, and a
\* status query can be received and answered
OthersNotBlocked ==
    \A c \in Callers :
        InLongOperation(c) =>
            /\ \A d \in Callers \ {c} :
                   /\ qpc[d] = "parse" => ENABLED ControlParse(d)
                   /\ (qpc[d] = "idle" /\
                       Cardinality(ReceivedOn("control")) < MaxQueries) =>
                          ENABLED (\E p \in CommandPayloads : ControlRecv(d, p))
            /\ Cardinality(ReceivedOn("status")) < MaxStatusQueries =>
                   \A k \in StatusKeys : ENABLED ControlStatus(k)

\* C32: a slow handler cannot block others: while a finish (or a start) of
\* one recording is waiting for its flush, its storage write or its
\* subscriptions, the next command query can be received, a received query
\* can be decoded and dispatched to the manager, and a status query can be
\* received and answered.
C32_SlowHandlerDoesNotBlock == []OthersNotBlocked

\* the finish of rec-x is still waiting, and a decodable command query that
\* names another recording and a status query for rec-x, both received
\* after it, have been answered
C32_Witness ==
    \E c \in Callers :
        /\ qpc[c] = "finish"
        /\ RecX \in DOMAIN registry
        /\ registry[RecX].status = "Uploading"
        /\ \E i \in ReceivedOn("control") :
              /\ i > qnum[c]
              /\ Decodable(qlog[i].payload)
              /\ qlog[i].payload.recording_id # RecX
              /\ qlog[i].state = "ok"
              /\ qlog[i].n = 1
        /\ \E j \in ReceivedOn("status") :
              /\ j > qnum[c]
              /\ qlog[j].payload.recording_id = RecX
              /\ qlog[j].sresp.success
              /\ qlog[j].sresp.status = "Uploading"

\* when shutdown has returned no session is Recording, Paused or Uploading
NoneActiveAfterShutdown == spc = "returned" => Active = {}

QuietShutdown ==
    /\ (spc = "returned" /\ squiet) => Active = {}
    /\ (spc = "returned" /\ starts = 0) => sresult = "ok"

RoundTrip ==
    /\ ser_dec.ok
    /\ ser_dec.count = Len(ser_in.samples)
    /\ Len(ser_dec.records) = Len(ser_in.samples)
    /\ \A i \in 1..Len(ser_in.samples) :
          /\ i \in DOMAIN ser_dec.records
          /\ ser_dec.records[i].payload = ser_in.samples[i].payload
          /\ ser_dec.records[i].topic = ser_in.topic
          /\ ser_in.samples[i].ts # NoTs
                => ser_dec.records[i].timestamp_ns = ser_in.samples[i].ts

C34_RoundTrip ==
    (ser_pc = "decoded" /\ ser_in.samples # <<>>) => RoundTrip

\* write_header copies the topic and the recording id into the header line
\* as they are: the frame reads back when neither holds a line feed
HasNewline(text) == \E i \in 1..Len(text) : text[i] = NL

C34_RoundTripPlainHeader ==
    (/\ ser_pc = "decoded"
     /\ ser_in.samples # <<>>
     /\ ~HasNewline(ser_in.topic)
     /\ ~HasNewline(ser_in.recording_id)) => RoundTrip

(* C35: an empty sample list serializes to zero bytes.
   Whatever the compression type and level, serialize_batch of an empty
   list returns the empty byte string: no header line, no compressor
   frame. *)
C35_EmptyInEmptyOut ==
    (ser_pc # "idle" /\ ser_in.samples = <<>>) => ser_out = <<>>

C35_Witness ==
    /\ ser_pc = "serialized"
    /\ ser_in.samples = <<>>
    /\ ser_in.compression_type = "lz4"
    /\ ser_out = <<>>

(* C36: topic_to_entry_name is deterministic, and free of collisions on
   plain topics.  The same topic always gives the same entry name.  Two
   distinct topics give distinct entry names when both begin with the same
   number of separators and neither holds an underscore or the text "all";
   without that condition distinct topics do share an entry name. *)
Contains(t, piece) ==
    \E i \in 1..Len(t) :
        i + Len(piece) - 1 <= Len(t) /\ SubSeq(t, i, i + Len(piece) - 1) = piece

LeadingSeparators(t) ==
    Cardinality({i \in 1..Len(t) : \A j \in 1..i : t[j] = 47})

PlainTopics ==
    /\ LeadingSeparators(entry_topics[1]) = LeadingSeparators(entry_topics[2])
    /\ \A i \in 1..2 : /\ ~Contains(entry_topics[i], <<95>>)
                       /\ ~Contains(entry_topics[i], <<97, 108, 108>>)

\* the statement for every two distinct topics
C36_CollisionFree ==
    (ser_pc = "named" /\ entry_topics[1] # entry_topics[2])
        => entry_names[1] # entry_names[2]

C36_CollisionFreePlain ==
    ser_pc = "named" =>
        /\ entry_topics[1] = entry_topics[2] => entry_names[1] = entry_names[2]
        /\ (entry_topics[1] # entry_topics[2] /\ PlainTopics)
              => entry_names[1] # entry_names[2]

\* a/l and a/* are plain, distinct, and named a_l and a_*
C36_Witness ==
    /\ ser_pc = "named"
    /\ entry_topics = << <<97, 47, 108>>, <<97, 47, 42>> >>
    /\ PlainTopics
    /\ entry_names = << <<97, 95, 108>>, <<97, 95, 42>> >>

(* C37: a push below both thresholds does not flush.
   A push_sample that leaves the byte counter below max_buffer_size and
   happens less than max_buffer_duration after the creation of the buffer
   enqueues no flush task and leaves its sample in the active list and
   counted in stats(), for every max_buffer_duration, those shorter than a
   second included. *)
BelowThresholds ==
    /\ ser_pc = "pushed"
    /\ timed.bytes < MaxBufferSize
    /\ timed.at - timed.created < timed.max_buffer_duration

NotFlushed ==
    /\ timed.queue = <<>>
    /\ timed.active = <<timed.bytes>>
    /\ timed.stats = <<1, timed.bytes>>

C37_NoFlushBelowThresholds == BelowThresholds => NotFlushed

\* the thresholds as the code sees them: the whole seconds elapsed are
\* fewer than the whole seconds of max_buffer_duration
C37_NoFlushBelowWholeSeconds ==
    (/\ ser_pc = "pushed"
     /\ timed.bytes < MaxBufferSize
     /\ as_secs(timed.at) - as_secs(timed.created) < as_secs(timed.max_buffer_duration))
        => NotFlushed

(* C38: force_flush is an unconditional swap-and-enqueue.
   With one caller at a time on the buffer, force_flush can be called
   whatever the byte counter and the time since the last flush; it makes the
   other list the active one, builds one flush task that holds exactly the
   samples of the list that was active, in order (the samples pushed since
   the last flush), puts it in the queue unless the queue is full, and
   leaves stats() at (0, 0) and the active list empty. *)
ForceFlushStep ==
    /\ (pc[Fin] = "swap" /\ pc'[Fin] = "take")
          => /\ ActiveList = sincePush
             /\ active_is_front' = ~active_is_front
    /\ (pc[Fin] = "take" /\ pc'[Fin] = "reset_samples")
          => loc_taken'[Fin] = sincePush
    /\ (pc[Fin] = "enqueue" /\ pc'[Fin] = "flushed")
          => /\ emitted' = Append(emitted, [samples |-> sincePush,
                                            ok |-> Len(flush_queue) < QueueCap])
             /\ Len(flush_queue) < QueueCap
                  => flush_queue' = Append(flush_queue, sincePush)
             /\ stats' = <<0, 0>>
             /\ ActiveList' = <<>>
             /\ front_buffer' = <<>> /\ back_buffer' = <<>>

C38_ForceFlush ==
    /\ []((status = "Idle" /\ Quiescent /\ forced < MaxForce)
             => ENABLED ForceFlushCall)
    /\ [][ForceFlushStep]_vars

\* a force_flush below both thresholds has queued the one sample pushed
\* before it and left the back list active
C38_Witness ==
    /\ pc[Fin] = "flushed"
    /\ forced = 1
    /\ now - last_flush_time < MaxBufferDuration
    /\ ~active_is_front
    /\ stats = <<0, 0>>
    /\ Len(emitted) = 1
    /\ emitted[1].ok
    /\ Len(emitted[1].samples) = 1
    /\ SumBytes(emitted[1].samples) < MaxBufferSize
    /\ flush_queue = <<emitted[1].samples>>

(* C39: concurrent pushes without a flush are all counted.
   When all pushes on the buffer have returned and none of them has
   triggered a flush, stats() is the number of pushes and the sum of their
   payload lengths, and the active list holds every pushed sample exactly
   once, whatever the interleaving of the pushes. *)
HeldOnce(list, s) == Cardinality({i \in 1..Len(list) : list[i] = s}) = 1

C39_ConcurrentPushesCounted ==
    (Quiescent /\ emitted = <<>>)
        => /\ stats = <<Len(sincePush), SumBytes(sincePush)>>
           /\ stats[1] = nextId - 1
           /\ Len(ActiveList) = Len(sincePush)
           /\ \A s \in Range(sincePush) : HeldOnce(ActiveList, s)
           /\ back_buffer = <<>>

\* three pushes, the first two at the same time and appended in the other
\* order, have returned without a flush
C39_Witness ==
    /\ Quiescent
    /\ emitted = <<>>
    /\ nextId = 4
    /\ <<1, 2>> \notin before
    /\ <<2, 1>> \notin before
    /\ ActiveList[1][1] = 2
    /\ stats = <<3, 1>>

(* C40: a flush triggered by push_sample never builds an empty task.
   Under every interleaving of concurrent pushes, each flush task built by
   the trigger_flush of a push, queued or dropped on a full queue, holds at
   least one sample. *)
C40_NoEmptyTask ==
    /\ \A i \in 1..Len(emitted) : emitted[i].samples # <<>>
    /\ \A i \in 1..Len(flush_queue) : flush_queue[i] # <<>>

====
